---- MODULE Spec2Model ----
(***************************************************************************)
(* Benchmark orchestration of the data vault: the target catalog and its   *)
(* queries (adapters/mod.rs), the three run modes of the orchestrator      *)
(* (lib.rs), the benchmark CLI commands (vault-cli commands/benchmark.rs)  *)
(* and the per-target trial loop with its nearest-rank percentiles         *)
(* (adapters/encryption.rs, hashing.rs, anonymization.rs, storage.rs).     *)
(***************************************************************************)
EXTENDS Integers, Sequences, FiniteSets, TLC

VARIABLES
    cli,        \* CLI command in progress: "none", "run" or "list"
    cliArgs,    \* its arguments: [target, prefix, save, iterations], options as <<>> / <<x>>
    cliOutcome, \* "pending", "ok", "validation_target", "validation_prefix", "io_error"
    listed,     \* ids printed by the list command
    outDir,     \* what the run command wrote: [raw, summary_md, summary_json]
    fn,         \* orchestrator function executing: "none", "all", "prefix", "id"
    arg,        \* its argument: the prefix or the id (<<>> for run-all)
    targets,    \* the catalog snapshot the function iterates
    idx,        \* position of the loop in targets (1-based)
    pc,         \* "idle", "setup", "run", "teardown", "returned", "panicked"
    results,    \* the Vec<BenchmarkResult> under construction
    ret,        \* returned value: <<>> until return, then [tag, val]
    stderr,     \* lines printed by eprintln!: <<kind, id>>
    calls,      \* history of lifecycle calls: [op, id, ok]
    faults,     \* number of failures injected so far
    now,        \* clock read by Utc::now()
    bench,      \* the target whose run() is executing in isolation
    times,      \* its trial sequence(s): [enc, dec]
    runPc,      \* "idle", "loop", "done", "panicked"
    emitted,    \* the metrics and indices computed by run()
    files,      \* the raw directory: file name -> [readable, content]
    summary,    \* the two summary artifacts: [md, json], options
    written,    \* history: the records whose write_result returned Ok
    damaged,    \* history: number of files damaged or planted from outside
    ioRet,      \* outcome of the last io call: [op, tag, val]
    shown,      \* records printed by the results command (<<>> before it ran)
    jrec,       \* record handed to to_json
    jtext,      \* its serialized text (<<>> before to_json)
    jback,      \* outcome of from_json on that text (<<>> before from_json)
    builder,    \* a StandardMetrics value under construction
    jvalue,     \* what to_json_value made of it (<<>> before the call)
    cfg,        \* InfraAdapter::config, fixed at construction
    policy,     \* the three policy cells: kind -> [val, lo, hi]
    wlock,      \* kind -> the thread holding the cell's write lock (0: none)
    caps,       \* InfraAdapter::capabilities
    initialized,\* InfraAdapter::initialized
    thr,        \* per thread: the adapter call it executes and its outcome
    ncalls,     \* number of adapter calls begun so far
    backoff     \* the last backoff_for_attempt call: its inputs and its duration

orchVars == <<cli, cliArgs, cliOutcome, listed, outDir, fn, arg, targets, idx, pc,
              results, ret, stderr, calls, faults, now>>
statVars == <<bench, times, runPc, emitted>>
ioVars == <<files, summary, written, damaged, ioRet, shown>>
jsonVars == <<jrec, jtext, jback, builder, jvalue>>
infraVars == <<cfg, policy, wlock, caps, initialized, thr, ncalls, backoff>>
vars == <<cli, cliArgs, cliOutcome, listed, outDir, fn, arg, targets, idx, pc,
          results, ret, stderr, calls, faults, now, bench, times, runPc, emitted,
          files, summary, written, damaged, ioRet, shown, jrec, jtext, jback,
          builder, jvalue,
          cfg, policy, wlock, caps, initialized, thr, ncalls, backoff>>

(***************************************************************************)
(* Bounds of the model.                                                    *)
(***************************************************************************)
MaxFaults == 2      \* failures (setup, run, teardown) injected per command
MaxTrials == 3      \* largest trial count with freely chosen trial times
MaxSample == 2      \* trial times are drawn from 1..MaxSample

None == <<>>
Some(x) == <<x>>

(***************************************************************************)
(* The catalog: adapters/mod.rs, all_targets().  The iteration counts are  *)
(* the defaults of the four constructors.                                  *)
(***************************************************************************)
EncryptionBenchmark(data_size, id) ==
    [adapter |-> "encryption", variant |-> "aes-gcm", size |-> data_size,
     id |-> id, iterations |-> 100]

HashingBenchmark(hash_type, data_size, id) ==
    [adapter |-> "hashing", variant |-> hash_type, size |-> data_size,
     id |-> id, iterations |-> 1000]

AnonymizationBenchmark(benchmark_type, record_count, id) ==
    [adapter |-> "anonymization", variant |-> benchmark_type, size |-> record_count,
     id |-> id, iterations |-> 10]

StorageBenchmark(operation, data_size, id) ==
    [adapter |-> "storage", variant |-> operation, size |-> data_size,
     id |-> id, iterations |-> 100]

\* as all_targets, but the second encryption entry repeats the id of the first
all_targets_DuplicateId ==
    << EncryptionBenchmark(1024, "encryption-1kb"),
       EncryptionBenchmark(1024 * 1024, "encryption-1kb"),
       EncryptionBenchmark(10 * 1024 * 1024, "encryption-10mb"),
       HashingBenchmark("blake3", 1024 * 1024, "hashing-blake3-1mb"),
       HashingBenchmark("sha256", 1024 * 1024, "hashing-sha256-1mb"),
       HashingBenchmark("checksum", 1024 * 1024, "checksum-verification-1mb"),
       AnonymizationBenchmark("full", 100, "anonymization-100-records"),
       AnonymizationBenchmark("full", 1000, "anonymization-1000-records"),
       AnonymizationBenchmark("detection", 1000, "pii-detection-1000-records"),
       StorageBenchmark("write", 1024 * 1024, "storage-write-1mb"),
       StorageBenchmark("read", 1024 * 1024, "storage-read-1mb"),
       StorageBenchmark("content_addressing", 1024 * 1024, "content-addressing-1mb") >>

all_targets ==
    << EncryptionBenchmark(1024, "encryption-1kb"),
       EncryptionBenchmark(1024 * 1024, "encryption-1mb"),
       EncryptionBenchmark(10 * 1024 * 1024, "encryption-10mb"),
       HashingBenchmark("blake3", 1024 * 1024, "hashing-blake3-1mb"),
       HashingBenchmark("sha256", 1024 * 1024, "hashing-sha256-1mb"),
       HashingBenchmark("checksum", 1024 * 1024, "checksum-verification-1mb"),
       AnonymizationBenchmark("full", 100, "anonymization-100-records"),
       AnonymizationBenchmark("full", 1000, "anonymization-1000-records"),
       AnonymizationBenchmark("detection", 1000, "pii-detection-1000-records"),
       StorageBenchmark("write", 1024 * 1024, "storage-write-1mb"),
       StorageBenchmark("read", 1024 * 1024, "storage-read-1mb"),
       StorageBenchmark("content_addressing", 1024 * 1024, "content-addressing-1mb") >>

\* as starts_with, but the last byte of the pattern is not compared
starts_with_DropsLast(s, pat) ==
    \/ pat = ""
    \/ /\ Len(pat) - 1 <= Len(s)
       /\ SubSeq(s, 1, Len(pat) - 1) = SubSeq(pat, 1, Len(pat) - 1)

\* str::starts_with: the pattern is no longer than the string and equals
\* the string's leading bytes (byte comparison, so case-sensitive).
starts_with(s, pat) ==
    /\ Len(pat) <= Len(s)
    /\ SubSeq(s, 1, Len(pat)) = pat

\* Iterator::filter(..).collect(): the elements satisfying the test, in order.
targets_by_prefix(prefix) ==
    SelectSeq(all_targets, LAMBDA t : starts_with(t.id, prefix))

\* as target_by_id, but an id matches when the argument is a prefix of it
target_by_id_Prefix(id) ==
    LET hits == {i \in 1..Len(all_targets) : starts_with(all_targets[i].id, id)}
    IN  IF hits = {} THEN None
        ELSE Some(all_targets[CHOOSE i \in hits : \A j \in hits : i <= j])

\* Iterator::find: the first element whose id equals the argument, or None.
target_by_id(id) ==
    LET hits == {i \in 1..Len(all_targets) : all_targets[i].id = id}
    IN  IF hits = {} THEN None
        ELSE Some(all_targets[CHOOSE i \in hits : \A j \in hits : i <= j])

Ids(ts) == [i \in 1..Len(ts) |-> ts[i].id]

(***************************************************************************)
(* BenchTarget::run as the orchestrator sees it: a record carrying the     *)
(* target's id, the time of its construction and the metrics of the        *)
(* target's own configuration.                                             *)
(***************************************************************************)
BenchmarkResult(t, timestamp) ==
    [target_id |-> t.id,
     metrics   |-> [iterations |-> t.iterations, data_size |-> t.size],
     timestamp |-> timestamp]

(***************************************************************************)
(* result.rs: StandardMetrics and its builder.  An unset well-known field  *)
(* is None; `custom` is the flattened extension map.                       *)
(***************************************************************************)
StandardMetrics_new ==
    [duration_ms |-> None, ops_per_second |-> None, bytes_per_second |-> None,
     latency_p50_ms |-> None, latency_p95_ms |-> None, latency_p99_ms |-> None,
     memory_bytes |-> None, iterations |-> None, data_size_bytes |-> None,
     success_rate |-> None, custom |-> <<>>]

with_duration_ms(m, v) == [m EXCEPT !.duration_ms = Some(v)]
with_ops_per_second(m, v) == [m EXCEPT !.ops_per_second = Some(v)]
with_bytes_per_second(m, v) == [m EXCEPT !.bytes_per_second = Some(v)]
with_latencies(m, p50, p95, p99) ==
    [m EXCEPT !.latency_p50_ms = Some(p50), !.latency_p95_ms = Some(p95),
              !.latency_p99_ms = Some(p99)]
with_data_size(m, v) == [m EXCEPT !.data_size_bytes = Some(v)]
with_iterations(m, v) == [m EXCEPT !.iterations = Some(v)]
\* serde_json::Map::insert: a later value replaces an earlier one of the key
with_custom(m, k, v) ==
    [m EXCEPT !.custom = [x \in (DOMAIN m.custom) \cup {k} |->
                            IF x = k THEN v ELSE m.custom[x]]]

(***************************************************************************)
(* f64 arithmetic of the percentile indices.  The literals 0.95 and 0.99   *)
(* are the doubles M * 2^-53 with the 53-bit significands below, written   *)
(* in base 2^16, least significant limb first.  `(n as f64 * c) as usize`  *)
(* is the exact product n * M rounded to 53 bits (nearest, ties to even)   *)
(* and then truncated; exact for n < 2^14.                                 *)
(***************************************************************************)
F64_0_95 == <<26214, 26214, 26214, 30>>     \* 0x1E666666666666
F64_0_99 == <<18350, 31457, 44564, 31>>     \* 0x1FAE147AE147AE

Pow2(k) == 2 ^ k
BitLen(i) == CHOOSE k \in 0..30 : i < Pow2(k) /\ (k = 0 \/ i >= Pow2(k - 1))

f64_mul_as_usize(n, m) ==
    LET t0 == m[1] * n
        t1 == m[2] * n + (t0 \div 65536)
        t2 == m[3] * n + (t1 \div 65536)
        t3 == m[4] * n + (t2 \div 65536)
        p0 == t0 % 65536
        p1 == t1 % 65536
        p2 == t2 % 65536
        p3 == t3 % 65536
        p4 == t3 \div 65536
        floor == (p3 \div 32) + p4 * 2048        \* product >> 53
        k == BitLen(floor)                       \* bits dropped by rounding
        ones == /\ p0 \div Pow2(k) = Pow2(16 - k) - 1
                /\ p1 = 65535 /\ p2 = 65535 /\ p3 % 32 = 31
        roundsUp == k > 0 /\ p0 % Pow2(k) >= Pow2(k - 1)
    IN  IF ones /\ roundsUp THEN floor + 1 ELSE floor

\* as p50_idx, but rounding the half up
p50_idx_RoundsUp(n) == (n + 1) \div 2

p50_idx(n) == n \div 2
p95_idx(n) == f64_mul_as_usize(n, F64_0_95)
\* as p99_idx, but with the factor of the 95th percentile
p99_idx_Factor95(n) == f64_mul_as_usize(n, F64_0_95)

p99_idx(n) == f64_mul_as_usize(n, F64_0_99)

Min(a, b) == IF a <= b THEN a ELSE b

(***************************************************************************)
(* Statistics over a trial sequence.                                       *)
(***************************************************************************)
Values(s) == {s[i] : i \in DOMAIN s}

\* slice::sort_by(partial_cmp): the ascending rearrangement of s
sort_by(s) ==
    LET below == [v \in Values(s) |-> Cardinality({i \in DOMAIN s : s[i] < v})]
        upto  == [v \in Values(s) |-> Cardinality({i \in DOMAIN s : s[i] <= v})]
    IN  [i \in 1..Len(s) |-> CHOOSE v \in Values(s) : below[v] < i /\ i <= upto[v]]

RECURSIVE SumOf(_, _)
SumOf(s, vs) ==
    IF vs = {} THEN 0
    ELSE LET v == CHOOSE x \in vs : TRUE
         IN  v * Cardinality({i \in DOMAIN s : s[i] = v}) + SumOf(s, vs \ {v})

\* iter().sum::<f64>() / iterations as f64, kept as the exact quotient
Average(s, n) == [sum |-> SumOf(s, Values(s)), n |-> n]
\* (amount as f64 / avg) * 1000.0, kept as its operands
PerSecond(amount, avg) == [amount |-> amount, per_ms |-> avg]

\* Vec indexing (0-based); out of range panics
InRange(s, i) == i >= 0 /\ i < Len(s)
At(s, i) == s[i + 1]

\* AnonymizationBenchmark::generate_test_records: total length of the records
RecordDigits(count) ==
    Min(count, 10) + 2 * Min(IF count > 10 THEN count - 10 ELSE 0, 90)
      + 3 * Min(IF count > 100 THEN count - 100 ELSE 0, 900)
      + 4 * Min(IF count > 1000 THEN count - 1000 ELSE 0, 9000)
total_bytes(count) == 115 * count + 2 * RecordDigits(count)

(***************************************************************************)
(* BenchTarget::run of the four adapters: statistics and metrics record    *)
(* from the trial times `ts` = [enc, dec] (hashing, anonymization and      *)
(* storage have one sequence, kept in enc).                                *)
(***************************************************************************)
LatencyIdx(n) == <<p50_idx(n), Min(p95_idx(n), n - 1), Min(p99_idx(n), n - 1)>>

\* `iterations - 1` underflows for 0 and Vec indexing panics out of range
IndexPanics(sorted, n) ==
    \/ n < 1
    \/ \E k \in 1..3 : ~InRange(sorted, LatencyIdx(n)[k])

Latencies(m, sorted, n) ==
    with_latencies(m, At(sorted, LatencyIdx(n)[1]), At(sorted, LatencyIdx(n)[2]),
                   At(sorted, LatencyIdx(n)[3]))

\* encryption.rs lines 80-113
EncryptionMetrics(b, ts) ==
    LET n == b.iterations
        avg_encrypt_ms == Average(ts.enc, n)
        avg_decrypt_ms == Average(ts.dec, n)
        total_ms == [sum |-> avg_encrypt_ms.sum + avg_decrypt_ms.sum, n |-> n]
        encrypt_throughput == PerSecond(b.size, avg_encrypt_ms)
        decrypt_throughput == PerSecond(b.size, avg_decrypt_ms)
        encrypt_times == sort_by(ts.enc)
        m1 == with_duration_ms(StandardMetrics_new, total_ms)
        m2 == with_data_size(m1, b.size)
        m3 == with_iterations(m2, n)
        m4 == with_bytes_per_second(m3, encrypt_throughput)
        m5 == Latencies(m4, encrypt_times, n)
        m6 == with_custom(m5, "encrypt_avg_ms", avg_encrypt_ms)
        m7 == with_custom(m6, "decrypt_avg_ms", avg_decrypt_ms)
        m8 == with_custom(m7, "encrypt_throughput_bps", encrypt_throughput)
        m9 == with_custom(m8, "decrypt_throughput_bps", decrypt_throughput)
    IN  with_custom(m9, "algorithm", "AES-256-GCM")

\* hashing.rs lines 125-157
HashingMetrics(b, ts) ==
    LET n == b.iterations
        avg_ms == Average(ts.enc, n)
        throughput_bps == PerSecond(b.size, avg_ms)
        ops_per_second == PerSecond(1, avg_ms)
        sorted == sort_by(ts.enc)
        algorithm == IF b.variant = "blake3" THEN "BLAKE3"
                     ELSE IF b.variant = "sha256" THEN "SHA-256"
                     ELSE "BLAKE3-Checksum"
        m1 == with_duration_ms(StandardMetrics_new, avg_ms)
        m2 == with_data_size(m1, b.size)
        m3 == with_iterations(m2, n)
        m4 == with_bytes_per_second(m3, throughput_bps)
        m5 == with_ops_per_second(m4, ops_per_second)
        m6 == Latencies(m5, sorted, n)
        m7 == with_custom(m6, "algorithm", algorithm)
    IN  with_custom(m7, "throughput_bps", throughput_bps)

\* anonymization.rs lines 202-233; `pii` is the number of PII instances the
\* collaborator reports per record
AnonymizationMetrics(b, ts, pii) ==
    LET n == b.iterations
        bytes == total_bytes(b.size)
        avg_ms == Average(ts.enc, n)
        records_per_second == PerSecond(b.size, avg_ms)
        throughput_bps == PerSecond(bytes, avg_ms)
        sorted == sort_by(ts.enc)
        total_pii_found == pii * b.size * n
        total_anonymized == IF b.variant = "detection" THEN 0 ELSE total_pii_found
        avg_pii_per_record == [sum |-> total_pii_found, n |-> b.size * n]
        m1 == with_duration_ms(StandardMetrics_new, avg_ms)
        m2 == with_data_size(m1, bytes)
        m3 == with_iterations(m2, n)
        m4 == with_ops_per_second(m3, records_per_second)
        m5 == with_bytes_per_second(m4, throughput_bps)
        m6 == Latencies(m5, sorted, n)
        m7 == with_custom(m6, "record_count", b.size)
        m8 == with_custom(m7, "records_per_second", records_per_second)
        m9 == with_custom(m8, "avg_pii_per_record", avg_pii_per_record)
        m10 == with_custom(m9, "total_pii_found", total_pii_found)
    IN  with_custom(m10, "total_anonymized", total_anonymized)

\* storage.rs lines 149-182
StorageMetrics(b, ts) ==
    LET n == b.iterations
        avg_ms == Average(ts.enc, n)
        throughput_bps == PerSecond(b.size, avg_ms)
        ops_per_second == PerSecond(1, avg_ms)
        sorted == sort_by(ts.enc)
        m1 == with_duration_ms(StandardMetrics_new, avg_ms)
        m2 == with_data_size(m1, b.size)
        m3 == with_iterations(m2, n)
        m4 == with_bytes_per_second(m3, throughput_bps)
        m5 == with_ops_per_second(m4, ops_per_second)
        m6 == Latencies(m5, sorted, n)
        m7 == with_custom(m6, "operation", b.variant)
        m8 == with_custom(m7, "throughput_bps", throughput_bps)
    IN  with_custom(m8, "backend", "in-memory")

RunMetrics(b, ts, pii) ==
    IF b.adapter = "encryption" THEN EncryptionMetrics(b, ts)
    ELSE IF b.adapter = "hashing" THEN HashingMetrics(b, ts)
    ELSE IF b.adapter = "anonymization" THEN AnonymizationMetrics(b, ts, pii)
    ELSE StorageMetrics(b, ts)

\* the measured operation is called through `.expect(..)` in these variants
CanFail(b) ==
    \/ b.adapter = "encryption"
    \/ b.adapter = "anonymization" /\ b.variant # "detection"
    \/ b.adapter = "storage" /\ b.variant # "content_addressing"

\* markdown::generate_summary: the tabular report, one row per record.
generate_summary(rs) == [rows |-> [i \in 1..Len(rs) |-> rs[i].target_id]]

(***************************************************************************)
(* Inputs of the commands and of the library calls.                        *)
(***************************************************************************)
IdInputs == {"encryption-1kb", "content-addressing-1mb", "encryption", "no-such-target"}
PrefixInputs == {"encryption", "hashing", "storage-", "Encryption", "encryption-1kbx", ""}

\* values of --iterations: 5 is no catalog target's own trial count
IterationInputs == {5}

NoArgs == [target |-> None, prefix |-> None, save |-> FALSE, iterations |-> None]
EmptyOutDir == [raw |-> <<>>, summary_md |-> None, summary_json |-> None]
Call(op, id, ok) == [op |-> op, id |-> id, ok |-> ok]

StatIdle ==
    /\ bench = [adapter |-> "none"]
    /\ times = [enc |-> <<>>, dec |-> <<>>]
    /\ runPc = "idle"
    /\ emitted = None

OrchIdle ==
    /\ cli = "none"
    /\ cliArgs = NoArgs
    /\ cliOutcome = "pending"
    /\ listed = <<>>
    /\ outDir = EmptyOutDir
    /\ fn = "none"
    /\ arg = None
    /\ targets = <<>>
    /\ idx = 1
    /\ pc = "idle"
    /\ results = <<>>
    /\ ret = <<>>
    /\ stderr = <<>>
    /\ calls = <<>>
    /\ faults = 0
    /\ now = 1

\* BenchmarkIO::new over an output directory nobody wrote to yet
EmptyDir == [n \in {} |-> None]
NoSummary == [md |-> None, json |-> None]

IoIdle ==
    /\ files = EmptyDir
    /\ summary = NoSummary
    /\ written = <<>>
    /\ damaged = 0
    /\ ioRet = None
    /\ shown = None

JsonIdle ==
    /\ jrec = None
    /\ jtext = None
    /\ jback = None
    /\ builder = StandardMetrics_new
    /\ jvalue = None

(***************************************************************************)
(* infra.rs: the adapter as InfraAdapter::new leaves it.  A policy cell    *)
(* holds the policy value and, for each half of the value's storage, the   *)
(* number of the call that stored it (0: the constructor).                 *)
(***************************************************************************)
Threads == {1, 2}
Kinds == {"retry", "rate_limit", "cache"}

RetryPolicy_default ==
    [max_retries |-> 3, initial_backoff_ms |-> 100, max_backoff_ms |-> 30000,
     multiplier |-> 2, jitter |-> TRUE,
     retryable_status_codes |-> <<408, 429, 500, 502, 503, 504>>]
RateLimitPolicy_default ==
    [requests_per_second |-> 100, burst_size |-> 200,
     per_user |-> TRUE, per_ip |-> TRUE, global |-> TRUE]
CachePolicy_default ==
    [max_entries |-> 10000, max_size_bytes |-> 256 * 1024 * 1024,
     default_ttl_secs |-> 3600, negative_cache |-> TRUE, negative_ttl_secs |-> 60,
     backend |-> "memory"]
PolicyDefault(kind) ==
    IF kind = "retry" THEN RetryPolicy_default
    ELSE IF kind = "rate_limit" THEN RateLimitPolicy_default
    ELSE CachePolicy_default

InfraCapabilities_default ==
    [config_available |-> FALSE, logging_available |-> FALSE,
     tracing_available |-> FALSE, caching_available |-> FALSE,
     retry_available |-> FALSE, rate_limiting_available |-> FALSE]

InfraConfig_default ==
    [enabled |-> TRUE, enable_config |-> TRUE, enable_logging |-> TRUE,
     enable_tracing |-> TRUE, enable_caching |-> TRUE, enable_retry |-> TRUE,
     enable_rate_limiting |-> TRUE]

Cell(val, stamp) == [val |-> val, lo |-> stamp, hi |-> stamp]
IdleThread == [op |-> "none", pc |-> "idle", kind |-> "none", stamp |-> 0,
               ret |-> None, snap |-> None]

\* InfraAdapter::new(config)
InfraAdapter_new(config) ==
    /\ cfg = config
    /\ policy = [k \in Kinds |-> Cell(PolicyDefault(k), 0)]
    /\ wlock = [k \in Kinds |-> 0]
    /\ caps = InfraCapabilities_default
    /\ initialized = FALSE
    /\ thr = [t \in Threads |-> IdleThread]
    /\ ncalls = 0

InfraIdle == InfraAdapter_new(InfraConfig_default) /\ backoff = None

Init == OrchIdle /\ StatIdle /\ IoIdle /\ JsonIdle /\ InfraIdle

(***************************************************************************)
(* lib.rs: entry of the three orchestrator functions.                      *)
(***************************************************************************)
\* run_all_benchmarks, lines 66-67
run_all_benchmarks ==
    /\ fn' = "all"
    /\ arg' = None
    /\ targets' = all_targets
    /\ results' = <<>>
    /\ idx' = 1
    /\ pc' = "setup"
    /\ UNCHANGED <<ret, stderr, calls, faults, now>>

\* run_benchmarks_by_prefix, lines 91-92
run_benchmarks_by_prefix(prefix) ==
    /\ fn' = "prefix"
    /\ arg' = Some(prefix)
    /\ targets' = targets_by_prefix(prefix)
    /\ results' = <<>>
    /\ idx' = 1
    /\ pc' = "setup"
    /\ UNCHANGED <<ret, stderr, calls, faults, now>>

\* run_benchmark_by_id, line 113: `target_by_id(id)?` returns None at once
run_benchmark_by_id(id) ==
    /\ fn' = "id"
    /\ arg' = Some(id)
    /\ targets' = target_by_id(id)
    /\ results' = <<>>
    /\ idx' = 1
    /\ IF target_by_id(id) = None
         THEN pc' = "returned" /\ ret' = [tag |-> "None", val |-> <<>>]
         ELSE pc' = "setup" /\ ret' = ret
    /\ UNCHANGED <<stderr, calls, faults, now>>

Idle == cli = "none" /\ pc = "idle" /\ runPc = "idle"

\* a direct caller of the library (tests, run_and_save_benchmarks)
CallRunAll ==
    /\ Idle
    /\ run_all_benchmarks
    /\ UNCHANGED <<cli, cliArgs, cliOutcome, listed, outDir>>
    /\ UNCHANGED <<statVars, ioVars, jsonVars, infraVars>>

CallRunByPrefix ==
    /\ Idle
    /\ \E p \in PrefixInputs : run_benchmarks_by_prefix(p)
    /\ UNCHANGED <<cli, cliArgs, cliOutcome, listed, outDir>>
    /\ UNCHANGED <<statVars, ioVars, jsonVars, infraVars>>

CallRunById ==
    /\ Idle
    /\ \E id \in IdInputs : run_benchmark_by_id(id)
    /\ UNCHANGED <<cli, cliArgs, cliOutcome, listed, outDir>>
    /\ UNCHANGED <<statVars, ioVars, jsonVars, infraVars>>

(***************************************************************************)
(* lib.rs: the loop body of run_all_benchmarks and of                      *)
(* run_benchmarks_by_prefix (the same code in both).                       *)
(***************************************************************************)
InBatch == fn \in {"all", "prefix"}
Current == targets[idx]
CliUnchanged == UNCHANGED <<cli, cliArgs, cliOutcome, listed, outDir>>

\* target.setup().await returned Ok
BatchSetupOk ==
    /\ InBatch /\ pc = "setup" /\ idx <= Len(targets)
    /\ calls' = Append(calls, Call("setup", Current.id, TRUE))
    /\ pc' = "run"
    /\ UNCHANGED <<fn, arg, targets, idx, results, ret, stderr, faults, now>>
    /\ CliUnchanged /\ UNCHANGED <<statVars, ioVars, jsonVars, infraVars>>

\* as BatchSetupErr, but without the `continue`: falls through to run()
BatchSetupErr_NoContinue ==
    /\ fn \in {"all", "prefix"} /\ pc = "setup" /\ idx <= Len(targets)
    /\ faults < MaxFaults
    /\ faults' = faults + 1
    /\ calls' = Append(calls, Call("setup", targets[idx].id, FALSE))
    /\ stderr' = Append(stderr, <<"Setup failed", targets[idx].id>>)
    /\ pc' = "run"
    /\ UNCHANGED <<fn, arg, targets, idx, results, ret, now>>
    /\ UNCHANGED <<cli, cliArgs, cliOutcome, listed, outDir>>
    /\ UNCHANGED <<statVars, ioVars, jsonVars, infraVars>>

\* target.setup().await returned Err: eprintln!, continue
BatchSetupErr ==
    /\ InBatch /\ pc = "setup" /\ idx <= Len(targets)
    /\ faults < MaxFaults
    /\ faults' = faults + 1
    /\ calls' = Append(calls, Call("setup", Current.id, FALSE))
    /\ stderr' = Append(stderr, <<"Setup failed", Current.id>>)
    /\ idx' = idx + 1
    /\ pc' = "setup"
    /\ UNCHANGED <<fn, arg, targets, results, ret, now>>
    /\ CliUnchanged /\ UNCHANGED <<statVars, ioVars, jsonVars, infraVars>>

\* as BatchRun, but the loop moves on without the teardown
BatchRun_NoTeardown ==
    /\ fn \in {"all", "prefix"} /\ pc = "run"
    /\ calls' = Append(calls, Call("run", targets[idx].id, TRUE))
    /\ results' = Append(results, BenchmarkResult(targets[idx], now))
    /\ now' = now + 1
    /\ idx' = idx + 1
    /\ pc' = "setup"
    /\ UNCHANGED <<fn, arg, targets, ret, stderr, faults>>
    /\ UNCHANGED <<cli, cliArgs, cliOutcome, listed, outDir>>
    /\ UNCHANGED <<statVars, ioVars, jsonVars, infraVars>>

\* let result = target.run().await; results.push(result)
BatchRun ==
    /\ InBatch /\ pc = "run"
    /\ calls' = Append(calls, Call("run", Current.id, TRUE))
    /\ results' = Append(results, BenchmarkResult(Current, now))
    /\ now' = now + 1
    /\ pc' = "teardown"
    /\ UNCHANGED <<fn, arg, targets, idx, ret, stderr, faults>>
    /\ CliUnchanged /\ UNCHANGED <<statVars, ioVars, jsonVars, infraVars>>

\* the measured operation failed: `.expect(..)` panics inside run() and the
\* panic unwinds through the orchestrator function, which catches nothing
BatchRunPanic ==
    /\ InBatch /\ pc = "run"
    /\ CanFail(Current)
    /\ faults < MaxFaults
    /\ faults' = faults + 1
    /\ calls' = Append(calls, Call("run", Current.id, FALSE))
    /\ pc' = "panicked"
    /\ UNCHANGED <<fn, arg, targets, idx, results, ret, stderr, now>>
    /\ CliUnchanged /\ UNCHANGED <<statVars, ioVars, jsonVars, infraVars>>

\* target.teardown().await returned Ok
BatchTeardownOk ==
    /\ InBatch /\ pc = "teardown"
    /\ calls' = Append(calls, Call("teardown", Current.id, TRUE))
    /\ idx' = idx + 1
    /\ pc' = "setup"
    /\ UNCHANGED <<fn, arg, targets, results, ret, stderr, faults, now>>
    /\ CliUnchanged /\ UNCHANGED <<statVars, ioVars, jsonVars, infraVars>>

\* as BatchTeardownErr, but the failure ends the loop
BatchTeardownErr_Abort ==
    /\ fn \in {"all", "prefix"} /\ pc = "teardown"
    /\ faults < MaxFaults
    /\ faults' = faults + 1
    /\ calls' = Append(calls, Call("teardown", targets[idx].id, FALSE))
    /\ stderr' = Append(stderr, <<"Teardown failed", targets[idx].id>>)
    /\ idx' = Len(targets) + 1
    /\ pc' = "setup"
    /\ UNCHANGED <<fn, arg, targets, results, ret, now>>
    /\ UNCHANGED <<cli, cliArgs, cliOutcome, listed, outDir>>
    /\ UNCHANGED <<statVars, ioVars, jsonVars, infraVars>>

\* target.teardown().await returned Err: eprintln! only
BatchTeardownErr ==
    /\ InBatch /\ pc = "teardown"
    /\ faults < MaxFaults
    /\ faults' = faults + 1
    /\ calls' = Append(calls, Call("teardown", Current.id, FALSE))
    /\ stderr' = Append(stderr, <<"Teardown failed", Current.id>>)
    /\ idx' = idx + 1
    /\ pc' = "setup"
    /\ UNCHANGED <<fn, arg, targets, results, ret, now>>
    /\ CliUnchanged /\ UNCHANGED <<statVars, ioVars, jsonVars, infraVars>>

\* the loop is exhausted: `results` is returned
BatchReturn ==
    /\ InBatch /\ pc = "setup" /\ idx > Len(targets)
    /\ ret' = [tag |-> "Vec", val |-> results]
    /\ pc' = "returned"
    /\ UNCHANGED <<fn, arg, targets, idx, results, stderr, calls, faults, now>>
    /\ CliUnchanged /\ UNCHANGED <<statVars, ioVars, jsonVars, infraVars>>

(***************************************************************************)
(* lib.rs: run_benchmark_by_id after the lookup succeeded.                 *)
(***************************************************************************)
\* target.setup().await returned Ok
ByIdSetupOk ==
    /\ fn = "id" /\ pc = "setup"
    /\ calls' = Append(calls, Call("setup", Current.id, TRUE))
    /\ pc' = "run"
    /\ UNCHANGED <<fn, arg, targets, idx, results, ret, stderr, faults, now>>
    /\ CliUnchanged /\ UNCHANGED <<statVars, ioVars, jsonVars, infraVars>>

\* target.setup().await returned Err: eprintln!, return None
ByIdSetupErr ==
    /\ fn = "id" /\ pc = "setup"
    /\ faults < MaxFaults
    /\ faults' = faults + 1
    /\ calls' = Append(calls, Call("setup", Current.id, FALSE))
    /\ stderr' = Append(stderr, <<"Setup failed", Current.id>>)
    /\ ret' = [tag |-> "None", val |-> <<>>]
    /\ pc' = "returned"
    /\ UNCHANGED <<fn, arg, targets, idx, results, now>>
    /\ CliUnchanged /\ UNCHANGED <<statVars, ioVars, jsonVars, infraVars>>

\* let result = target.run().await
ByIdRun ==
    /\ fn = "id" /\ pc = "run"
    /\ calls' = Append(calls, Call("run", Current.id, TRUE))
    /\ results' = <<BenchmarkResult(Current, now)>>
    /\ now' = now + 1
    /\ pc' = "teardown"
    /\ UNCHANGED <<fn, arg, targets, idx, ret, stderr, faults>>
    /\ CliUnchanged /\ UNCHANGED <<statVars, ioVars, jsonVars, infraVars>>

\* the measured operation panicked inside run()
ByIdRunPanic ==
    /\ fn = "id" /\ pc = "run"
    /\ CanFail(Current)
    /\ faults < MaxFaults
    /\ faults' = faults + 1
    /\ calls' = Append(calls, Call("run", Current.id, FALSE))
    /\ pc' = "panicked"
    /\ UNCHANGED <<fn, arg, targets, idx, results, ret, stderr, now>>
    /\ CliUnchanged /\ UNCHANGED <<statVars, ioVars, jsonVars, infraVars>>

\* target.teardown().await returned Ok; Some(result)
ByIdTeardownOk ==
    /\ fn = "id" /\ pc = "teardown"
    /\ calls' = Append(calls, Call("teardown", Current.id, TRUE))
    /\ ret' = [tag |-> "Some", val |-> results]
    /\ pc' = "returned"
    /\ UNCHANGED <<fn, arg, targets, idx, results, stderr, faults, now>>
    /\ CliUnchanged /\ UNCHANGED <<statVars, ioVars, jsonVars, infraVars>>

\* target.teardown().await returned Err: eprintln!; Some(result)
ByIdTeardownErr ==
    /\ fn = "id" /\ pc = "teardown"
    /\ faults < MaxFaults
    /\ faults' = faults + 1
    /\ calls' = Append(calls, Call("teardown", Current.id, FALSE))
    /\ stderr' = Append(stderr, <<"Teardown failed", Current.id>>)
    /\ ret' = [tag |-> "Some", val |-> results]
    /\ pc' = "returned"
    /\ UNCHANGED <<fn, arg, targets, idx, results, now>>
    /\ CliUnchanged /\ UNCHANGED <<statVars, ioVars, jsonVars, infraVars>>

(***************************************************************************)
(* vault-cli commands/benchmark.rs                                         *)
(***************************************************************************)
OptionOf(S) == {None} \cup {Some(x) : x \in S}

\* RunBenchmarkCommand::run, lines 96-120: --target wins over --prefix
RunBenchmarkCommandStart ==
    /\ Idle
    /\ \E a \in [target : OptionOf(IdInputs), prefix : OptionOf(PrefixInputs),
                 save : BOOLEAN, iterations : OptionOf(IterationInputs)] :
        /\ cliArgs' = a
        /\ IF a.target # None THEN run_benchmark_by_id(a.target[1])
           ELSE IF a.prefix # None THEN run_benchmarks_by_prefix(a.prefix[1])
           ELSE run_all_benchmarks
    /\ cli' = "run"
    /\ UNCHANGED <<cliOutcome, listed, outDir>>
    /\ UNCHANGED <<statVars, ioVars, jsonVars, infraVars>>

\* BenchmarkIO::write_results then write_summary, with the write that fails
\* (0: none; k <= Len(rs): the k-th raw file; then summary.md, summary.json)
SaveResults(rs, failAt) ==
    [raw          |-> IF failAt = 0 \/ failAt > Len(rs) THEN rs
                      ELSE SubSeq(rs, 1, failAt - 1),
     summary_md   |-> IF failAt = 0 \/ failAt > Len(rs) + 1
                        THEN Some(generate_summary(rs)) ELSE None,
     summary_json |-> IF failAt = 0 THEN Some(rs) ELSE None]

\* RunBenchmarkCommand::run, lines 96-157, once the orchestrator returned
RunBenchmarkCommandFinish ==
    /\ cli = "run" /\ pc = "returned" /\ cliOutcome = "pending"
    /\ IF fn = "id" /\ ret.tag = "None"
         THEN cliOutcome' = "validation_target" /\ outDir' = outDir
       ELSE IF fn = "prefix" /\ ret.val = <<>>
         THEN cliOutcome' = "validation_prefix" /\ outDir' = outDir
       ELSE IF ~cliArgs.save
         THEN cliOutcome' = "ok" /\ outDir' = outDir
       ELSE \E failAt \in 0..(Len(ret.val) + 2) :
              /\ outDir' = SaveResults(ret.val, failAt)
              /\ cliOutcome' = IF failAt = 0 THEN "ok" ELSE "io_error"
    /\ UNCHANGED <<cli, cliArgs, listed, fn, arg, targets, idx, pc, results, ret,
                   stderr, calls, faults, now>>
    /\ UNCHANGED <<statVars, ioVars, jsonVars, infraVars>>

\* ListBenchmarksCommand::run, lines 163-193
ListBenchmarksCommand ==
    /\ Idle
    /\ \E prefix \in OptionOf(PrefixInputs) :
        /\ cliArgs' = [NoArgs EXCEPT !.prefix = prefix]
        /\ targets' = IF prefix # None THEN targets_by_prefix(prefix[1])
                      ELSE all_targets
        /\ listed' = Ids(targets')
    /\ cli' = "list"
    /\ cliOutcome' = "ok"
    /\ UNCHANGED <<outDir, fn, arg, idx, pc, results, ret, stderr, calls, faults, now>>
    /\ UNCHANGED <<statVars, ioVars, jsonVars, infraVars>>

(***************************************************************************)
(* One run() in isolation: the trial loop, then the statistics.            *)
(***************************************************************************)
WithIterations(b, n) == [b EXCEPT !.iterations = n]

\* the targets of the adapters' own tests, with any small trial count, and
\* the catalog targets with their default trial counts
TestTargets ==
    { EncryptionBenchmark(1024, "test-encryption"),
      HashingBenchmark("blake3", 1024, "test-blake3"),
      AnonymizationBenchmark("full", 10, "test-anonymization"),
      AnonymizationBenchmark("detection", 10, "test-pii-detection"),
      StorageBenchmark("write", 1024, "test-write") }

StatTargets ==
    {WithIterations(b, n) : b \in TestTargets, n \in 0..MaxTrials}
      \cup {all_targets[i] : i \in 1..Len(all_targets)}

InitStats ==
    /\ OrchIdle
    /\ IoIdle
    /\ JsonIdle
    /\ InfraIdle
    /\ bench \in StatTargets
    /\ times = [enc |-> <<>>, dec |-> <<>>]
    /\ runPc = "loop"
    /\ emitted = None

\* trial times are free for up to MaxTrials trials; a longer run is timed
\* against a fixed-latency operation (every trial takes as long as the first)
Elapsed(prev) ==
    IF bench.iterations > MaxTrials /\ prev # <<>>
      THEN {prev[Len(prev)]}
      ELSE 1..MaxSample

\* one pass of `for _ in 0..self.iterations`
StatTrial ==
    /\ runPc = "loop" /\ Len(times.enc) < bench.iterations
    /\ \E e \in Elapsed(times.enc) :
         IF bench.adapter = "encryption"
           THEN \E d \in Elapsed(times.dec) :
                  times' = [enc |-> Append(times.enc, e), dec |-> Append(times.dec, d)]
           ELSE times' = [times EXCEPT !.enc = Append(times.enc, e)]
    /\ UNCHANGED <<bench, runPc, emitted>>
    /\ UNCHANGED <<orchVars, ioVars, jsonVars, infraVars>>

\* the measured operation returned Err: `.expect(..)` panics
StatTrialPanic ==
    /\ runPc = "loop" /\ Len(times.enc) < bench.iterations
    /\ CanFail(bench)
    /\ runPc' = "panicked"
    /\ UNCHANGED <<bench, times, emitted>>
    /\ UNCHANGED <<orchVars, ioVars, jsonVars, infraVars>>

\* the statistics, the metrics record and BenchmarkResult::new
StatFinish ==
    /\ runPc = "loop" /\ Len(times.enc) = bench.iterations
    /\ IF IndexPanics(sort_by(times.enc), bench.iterations)
         THEN runPc' = "panicked" /\ emitted' = emitted
         ELSE /\ runPc' = "done"
              /\ \E pii \in 0..1 :
                   emitted' = Some([target_id |-> bench.id,
                                    metrics |-> RunMetrics(bench, times, pii),
                                    sorted |-> sort_by(times.enc),
                                    idx |-> LatencyIdx(bench.iterations)])
    /\ UNCHANGED <<bench, times>>
    /\ UNCHANGED <<orchVars, ioVars, jsonVars, infraVars>>

NextStats == StatTrial \/ StatTrialPanic \/ StatFinish

SpecStats == InitStats /\ [][NextStats]_vars

Next ==
    \/ CallRunAll \/ CallRunByPrefix \/ CallRunById
    \/ BatchSetupOk \/ BatchSetupErr \/ BatchRun \/ BatchRunPanic
    \/ BatchTeardownOk \/ BatchTeardownErr \/ BatchReturn
    \/ ByIdSetupOk \/ ByIdSetupErr \/ ByIdRun \/ ByIdRunPanic
    \/ ByIdTeardownOk \/ ByIdTeardownErr
    \/ RunBenchmarkCommandStart \/ RunBenchmarkCommandFinish
    \/ ListBenchmarksCommand

Spec == Init /\ [][Next]_vars

(***************************************************************************)
(* result.rs: a BenchmarkResult and its JSON text.  A DateTime<Utc> is the *)
(* second of the epoch and the nanosecond of that second; the metrics are  *)
(* a serde_json object whose leaves are unsigned numbers and strings.  The *)
(* text of an object is its set of members <<key, text of the value>>; the *)
(* text of a leaf is the string serde_json prints for it.                  *)
(***************************************************************************)
DateTime(secs, nanos) == [secs |-> secs, nanos |-> nanos]

\* Ord of DateTime<Utc>
Before(a, b) == a.secs < b.secs \/ (a.secs = b.secs /\ a.nanos < b.nanos)

Num(n) == [num |-> n]
Str(s) == [str |-> s]

\* BenchmarkResult::with_timestamp
with_timestamp(target_id, metrics, timestamp) ==
    [target_id |-> target_id, metrics |-> metrics, timestamp |-> timestamp]

Digits == "0123456789"
CharAt(s, i) == SubSeq(s, i, i)
IsDigit(c) == \E d \in 0..9 : CharAt(Digits, d + 1) = c
DigitOf(c) == CHOOSE d \in 0..9 : CharAt(Digits, d + 1) = c

\* an unsigned number as serde_json (itoa) prints it
RECURSIVE fmt_u64(_)
fmt_u64(n) ==
    IF n < 10 THEN CharAt(Digits, n + 1)
    ELSE fmt_u64(n \div 10) \o CharAt(Digits, (n % 10) + 1)

RECURSIVE digits_value(_)
digits_value(s) ==
    IF s = "" THEN 0
    ELSE 10 * digits_value(SubSeq(s, 1, Len(s) - 1)) + DigitOf(CharAt(s, Len(s)))

\* ... and as serde_json reads it back: None for anything but digits
parse_u64(s) ==
    IF s /= "" /\ \A i \in 1..Len(s) : IsDigit(CharAt(s, i))
    THEN Some(digits_value(s))
    ELSE None

\* n in exactly `width` digits, zero padded
RECURSIVE pad(_, _)
pad(n, width) ==
    IF width = 0 THEN "" ELSE pad(n \div 10, width - 1) \o CharAt(Digits, (n % 10) + 1)

\* string escaping of the JSON writer: the quote and the backslash
RECURSIVE escape(_)
escape(s) ==
    IF s = "" THEN ""
    ELSE LET c == CharAt(s, 1)
             rest == escape(SubSeq(s, 2, Len(s)))
         IN  IF c = "\"" \/ c = "\\" THEN "\\" \o c \o rest ELSE c \o rest

RECURSIVE unescape(_)
unescape(s) ==
    IF s = "" THEN ""
    ELSE IF CharAt(s, 1) = "\\" /\ Len(s) >= 2
         THEN CharAt(s, 2) \o unescape(SubSeq(s, 3, Len(s)))
         ELSE CharAt(s, 1) \o unescape(SubSeq(s, 2, Len(s)))

\* position i of s holds a quote that no backslash escapes
RECURSIVE Escaped(_, _)
Escaped(s, i) == i > 1 /\ CharAt(s, i - 1) = "\\" /\ ~Escaped(s, i - 1)
BareQuote(s, i) == CharAt(s, i) = "\"" /\ ~Escaped(s, i)

quoted(s) == "\"" \o escape(s) \o "\""

\* a JSON string literal read back: None unless it is one quoted string
parse_string(t) ==
    IF /\ Len(t) >= 2
       /\ CharAt(t, 1) = "\""
       /\ BareQuote(t, Len(t))
       /\ \A i \in 2..(Len(t) - 1) : ~BareQuote(t, i)
       /\ ~Escaped(t, Len(t) + 1)
    THEN Some(unescape(SubSeq(t, 2, Len(t) - 1)))
    ELSE None

\* mutant of to_rfc3339: the sub-second part is dropped
to_rfc3339_WholeSeconds(ts) == fmt_u64(ts.secs) \o "Z"

\* chrono's serde text of a DateTime<Utc>: RFC 3339 with the fraction in 0,
\* 3, 6 or 9 digits as the nanoseconds need; the calendar part is written
\* here as the count of seconds
to_rfc3339(ts) ==
    fmt_u64(ts.secs)
      \o (IF ts.nanos = 0 THEN ""
          ELSE IF ts.nanos % 1000000 = 0 THEN "." \o pad(ts.nanos \div 1000000, 3)
          ELSE IF ts.nanos % 1000 = 0 THEN "." \o pad(ts.nanos \div 1000, 6)
          ELSE "." \o pad(ts.nanos, 9))
      \o "Z"

DotAt(t) == {i \in 1..Len(t) : CharAt(t, i) = "."}

parse_from_rfc3339(t) ==
    IF Len(t) < 2 \/ CharAt(t, Len(t)) /= "Z" THEN None
    ELSE LET body == SubSeq(t, 1, Len(t) - 1)
             dots == DotAt(body)
         IN  IF dots = {}
             THEN (IF parse_u64(body) = None THEN None
                   ELSE Some(DateTime(parse_u64(body)[1], 0)))
             ELSE LET d == CHOOSE i \in dots : \A j \in dots : i <= j
                      whole == parse_u64(SubSeq(body, 1, d - 1))
                      frac == SubSeq(body, d + 1, Len(body))
                  IN  IF whole = None \/ parse_u64(frac) = None \/ Len(frac) > 9
                      THEN None
                      ELSE Some(DateTime(whole[1],
                                         parse_u64(frac)[1] * 10 ^ (9 - Len(frac))))

\* serde_json::Value of the metrics to text and back
value_text(v) == IF DOMAIN v = {"num"} THEN fmt_u64(v.num) ELSE quoted(v.str)

parse_value(t) ==
    IF t /= "" /\ CharAt(t, 1) = "\""
    THEN (IF parse_string(t) = None THEN None ELSE Some(Str(parse_string(t)[1])))
    ELSE (IF parse_u64(t) = None THEN None ELSE Some(Num(parse_u64(t)[1])))

object_text(m) == {<<k, value_text(m[k])>> : k \in DOMAIN m}

Keys(members) == {mem[1] : mem \in members}
Member(members, k) == (CHOOSE mem \in members : mem[1] = k)[2]
HasOne(members, k) == Cardinality({mem \in members : mem[1] = k}) = 1

parse_object(members) ==
    IF \A mem \in members : HasOne(members, mem[1]) /\ parse_value(mem[2]) /= None
    THEN Some([k \in Keys(members) |-> parse_value(Member(members, k))[1]])
    ELSE None

\* BenchmarkResult::to_json: the derived Serialize writes the three fields
to_json(r) ==
    { <<"target_id", quoted(r.target_id)>>,
      <<"metrics", object_text(r.metrics)>>,
      <<"timestamp", quoted(to_rfc3339(r.timestamp))>> }

Ok(v) == [tag |-> "Ok", val |-> v]
Err(e) == [tag |-> "Err", val |-> e]

\* BenchmarkResult::from_json: the derived Deserialize needs each field once
\* and ignores members it does not know
from_json(text) ==
    IF ~(HasOne(text, "target_id") /\ HasOne(text, "metrics") /\ HasOne(text, "timestamp"))
    THEN Err("missing field")
    ELSE LET id == parse_string(Member(text, "target_id"))
             m == parse_object(Member(text, "metrics"))
             stamp == parse_string(Member(text, "timestamp"))
             ts == IF stamp = None THEN None ELSE parse_from_rfc3339(stamp[1])
         IN  IF id = None \/ m = None \/ ts = None THEN Err("invalid value")
             ELSE Ok(with_timestamp(id[1], m[1], ts[1]))

(***************************************************************************)
(* The round trip on its own: a record, its text, the record read back.    *)
(***************************************************************************)
JsonIds == {"encryption-1kb", "vendor/model:7b", "say \"hi\"", "back\\slash", ""}
JsonTimes ==
    {DateTime(s, n) : s \in {0, 7, 1700000000}, n \in {0, 500000000, 1000, 1, 999999999}}
JsonMetrics ==
    { [k \in {} |-> Num(0)],
      [k \in {"value"} |-> Num(42)],
      [duration_ms |-> Num(12), iterations |-> Num(100), data_size_bytes |-> Num(1048576)],
      [algorithm |-> Str("AES-256-GCM"), note |-> Str("a \"b\" \\ c"), count |-> Num(0)] }

InitJson ==
    /\ OrchIdle /\ StatIdle /\ IoIdle /\ InfraIdle
    /\ jrec \in {Some(with_timestamp(id, m, ts)) :
                    id \in JsonIds, m \in JsonMetrics, ts \in JsonTimes}
    /\ jtext = None
    /\ jback = None
    /\ builder = StandardMetrics_new
    /\ jvalue = None

ToJson ==
    /\ jrec /= None /\ jtext = None
    /\ jtext' = Some(to_json(jrec[1]))
    /\ UNCHANGED <<jrec, jback, builder, jvalue>>
    /\ UNCHANGED <<orchVars, statVars, ioVars, infraVars>>

FromJson ==
    /\ jtext /= None /\ jback = None
    /\ jback' = Some(from_json(jtext[1]))
    /\ UNCHANGED <<jrec, jtext, builder, jvalue>>
    /\ UNCHANGED <<orchVars, statVars, ioVars, infraVars>>

NextJson == ToJson \/ FromJson

SpecJson == InitJson /\ [][NextJson]_vars

(***************************************************************************)
(* io.rs: the raw directory.  A file is [readable, content]; the content   *)
(* of a file written by write_result is the JSON text of the record.       *)
(***************************************************************************)
MaxWrites == 3      \* write_result calls per directory
MaxDamage == 1      \* files damaged or planted from outside per directory

\* str::replace for a one-character pattern
RECURSIVE replace(_, _, _)
replace(s, from, to) ==
    IF s = "" THEN ""
    ELSE (IF CharAt(s, 1) = from THEN to ELSE CharAt(s, 1))
            \o replace(SubSeq(s, 2, Len(s)), from, to)

\* timestamp.format("%Y%m%d_%H%M%S"): the second, without its fraction
format_compact(ts) == fmt_u64(ts.secs)

\* write_result, lines 53-58
file_name(r) ==
    replace(replace(r.target_id, "/", "_"), ":", "_")
        \o "_" \o format_compact(r.timestamp) \o ".json"

File(content) == [readable |-> TRUE, content |-> content]

\* fs::write: creates the file or replaces its content
fs_write(dir, name, content) ==
    [n \in DOMAIN dir \cup {name} |-> IF n = name THEN File(content) ELSE dir[n]]

write_result(dir, r) == fs_write(dir, file_name(r), to_json(r))

\* path.extension() == "json"
extension_is_json(name) ==
    Len(name) > 5 /\ SubSeq(name, Len(name) - 4, Len(name)) = ".json"

\* the orders in which a directory may be listed (and a HashMap iterated)
RECURSIVE Perms(_)
Perms(S) ==
    IF S = {} THEN {<<>>}
    ELSE UNION {{<<x>> \o p : p \in Perms(S \ {x})} : x \in S}

\* results.sort_by(|a, b| a.timestamp.cmp(&b.timestamp)): a stable sort, as
\* the insertion of each record behind the records that are not later
RECURSIVE insert_sorted(_, _)
insert_sorted(sorted, r) ==
    IF sorted = <<>> \/ ~Before(r.timestamp, sorted[Len(sorted)].timestamp)
    THEN Append(sorted, r)
    ELSE Append(insert_sorted(SubSeq(sorted, 1, Len(sorted) - 1), r), sorted[Len(sorted)])

RECURSIVE sort_by_timestamp(_)
sort_by_timestamp(rs) ==
    IF rs = <<>> THEN <<>>
    ELSE insert_sorted(sort_by_timestamp(SubSeq(rs, 1, Len(rs) - 1)), rs[Len(rs)])

\* fs::read_dir: the entries of the directory, each with what reading its
\* file (line 84) and parsing the text (line 85) give
read_dir(dir) ==
    {[name |-> n, readable |-> dir[n].readable, parsed |-> from_json(dir[n].content)] :
        n \in DOMAIN dir}

\* the loop of lines 79-89 over the entries in the order of the listing: a
\* text that does not parse is passed over (line 85)
RECURSIVE load(_)
load(listing) ==
    IF listing = <<>> THEN <<>>
    ELSE LET entry == Head(listing)
         IN  IF extension_is_json(entry.name) /\ entry.parsed.tag = "Ok"
             THEN <<entry.parsed.val>> \o load(Tail(listing))
             ELSE load(Tail(listing))

\* read_results: a file that cannot be read returns its error (the ? of
\* line 84); the records that were loaded are sorted (line 93)
read_results(listing) ==
    IF \E i \in 1..Len(listing) :
          extension_is_json(listing[i].name) /\ ~listing[i].readable
    THEN Err("io")
    ELSE Ok(sort_by_timestamp(load(listing)))

(***************************************************************************)
(* vault-cli commands/benchmark.rs: ResultsCommand::run.                   *)
(***************************************************************************)
\* mutant of latest_by_target: the first record of an id is kept
RECURSIVE latest_by_target_KeepsFirst(_)
latest_by_target_KeepsFirst(rs) ==
    IF rs = <<>> THEN [id \in {} |-> None]
    ELSE LET before == latest_by_target_KeepsFirst(SubSeq(rs, 1, Len(rs) - 1))
             result == rs[Len(rs)]
             id == result.target_id
         IN  IF id \in DOMAIN before THEN before
             ELSE [k \in DOMAIN before \cup {id} |->
                       IF k = id THEN result ELSE before[k]]

\* lines 216-228: the HashMap from target id to its record
RECURSIVE latest_by_target(_)
latest_by_target(rs) ==
    IF rs = <<>> THEN [id \in {} |-> None]
    ELSE LET before == latest_by_target(SubSeq(rs, 1, Len(rs) - 1))
             result == rs[Len(rs)]
             id == result.target_id
         IN  IF id \in DOMAIN before
             THEN (IF Before(before[id].timestamp, result.timestamp)
                   THEN [before EXCEPT ![id] = result]
                   ELSE before)
             ELSE [k \in DOMAIN before \cup {id} |->
                       IF k = id THEN result ELSE before[k]]

(***************************************************************************)
(* One output directory: records are written, files are damaged from       *)
(* outside, the directory is read back by the library or by the CLI.       *)
(***************************************************************************)
IoMetrics == [k \in {"value"} |-> Num(42)]

\* one target run three times, twice within one second, and two targets
\* whose ids differ in a character that file names do not keep
IoRecords ==
    {with_timestamp("hashing-1kb", IoMetrics, ts) :
        ts \in {DateTime(1, 0), DateTime(1, 500000000), DateTime(2, 0)}}
      \cup {with_timestamp(id, IoMetrics, DateTime(2, 0)) : id \in {"enc/1kb", "enc_1kb"}}

\* contents that are not the text of a record
Garbage == { {<<"target_id", "\"enc_1kb\"">>, <<"metrics", {}>>} }
PlantedNames == {"junk.json", "notes.txt"}

IoCall(op, out) == [op |-> op, tag |-> out.tag, val |-> out.val]

InitIO == OrchIdle /\ StatIdle /\ IoIdle /\ JsonIdle /\ InfraIdle

WriteResult ==
    /\ Len(written) < MaxWrites
    /\ \E r \in IoRecords :
        /\ files' = write_result(files, r)
        /\ written' = Append(written, r)
        /\ ioRet' = IoCall("write_result", Ok(file_name(r)))
    /\ shown' = None
    /\ UNCHANGED <<summary, damaged>>
    /\ UNCHANGED <<orchVars, statVars, jsonVars, infraVars>>

\* the content of a file is lost (disk, editor, partial copy)
DamageContent ==
    /\ damaged < MaxDamage
    /\ \E n \in DOMAIN files \cup PlantedNames, g \in Garbage :
        files' = fs_write(files, n, g)
    /\ damaged' = damaged + 1
    /\ ioRet' = None
    /\ shown' = None
    /\ UNCHANGED <<summary, written>>
    /\ UNCHANGED <<orchVars, statVars, jsonVars, infraVars>>

\* a file becomes unreadable (permissions, bytes that are not UTF-8)
DamageUnreadable ==
    /\ damaged < MaxDamage
    /\ \E n \in DOMAIN files \cup PlantedNames :
        files' = [m \in DOMAIN files \cup {n} |->
                    IF m = n THEN [readable |-> FALSE, content |-> {}] ELSE files[m]]
    /\ damaged' = damaged + 1
    /\ ioRet' = None
    /\ shown' = None
    /\ UNCHANGED <<summary, written>>
    /\ UNCHANGED <<orchVars, statVars, jsonVars, infraVars>>

\* the orders in which fs::read_dir may list the directory; an entry that
\* the loop passes over gives the same outcome wherever it is listed, so
\* these entries are listed last, in one order
Listings(dir) ==
    LET entries == read_dir(dir)
        loaded == {e \in entries : extension_is_json(e.name) /\ e.parsed.tag = "Ok"}
        passed == CHOOSE p \in Perms(entries \ loaded) : TRUE
    IN  {l \o passed : l \in Perms(loaded)}

\* the outcomes of read_results over every order of the listing
ReadOutcomes(dir) == {read_results(listing) : listing \in Listings(dir)}

\* latest_by_target.values().cloned().cloned().collect(), line 230: the
\* records of the HashMap in each order in which it may hand them out
ValuesOf(by_target) ==
    {[i \in 1..Len(keys) |-> by_target[keys[i]]] : keys \in Perms(DOMAIN by_target)}

ReadResults ==
    /\ \E read \in ReadOutcomes(files) :
        ioRet' = IoCall("read_results", read)
    /\ shown' = None
    /\ UNCHANGED <<files, summary, written, damaged>>
    /\ UNCHANGED <<orchVars, statVars, jsonVars, infraVars>>

\* ResultsCommand::run, lines 198-245
ResultsCommand ==
    /\ \E latest \in BOOLEAN, read \in ReadOutcomes(files) :
        /\ ioRet' = IoCall(IF latest THEN "results --latest" ELSE "results", read)
        /\ IF read.tag = "Err" THEN shown' = None
           ELSE IF read.val = <<>> THEN shown' = Some(<<>>)
           ELSE IF latest
                THEN \E values \in ValuesOf(latest_by_target(read.val)) :
                        shown' = Some(values)
                ELSE shown' = Some(read.val)
    /\ UNCHANGED <<files, summary, written, damaged>>
    /\ UNCHANGED <<orchVars, statVars, jsonVars, infraVars>>

NextIO == WriteResult \/ DamageContent \/ DamageUnreadable \/ ReadResults \/ ResultsCommand

SpecIO == InitIO /\ [][NextIO]_vars

(***************************************************************************)
(* io.rs: write_summary.  summary.md holds the given text, summary.json    *)
(* the array of the texts of the given records.                            *)
(***************************************************************************)
\* mutant of fs_write_file: the file is opened for appending
fs_write_file_Appends(old, content) ==
    IF old = None THEN Some(content) ELSE Some(old[1] \o content)

\* fs::write on one file: whatever it held, it holds `content` afterwards
fs_write_file(old, content) == Some(content)

\* serde_json::to_string_pretty(results): the array of the records' texts
array_text(rs) == [i \in 1..Len(rs) |-> to_json(rs[i])]

\* write_summary up to the step that fails ("none": no step fails)
write_summary(old, rs, content, failing) ==
    IF failing = "ensure_directories" THEN old
    ELSE IF failing = "write_md" THEN old
    ELSE IF failing = "write_json"
         THEN [old EXCEPT !.md = fs_write_file(old.md, content)]
    ELSE [md |-> fs_write_file(old.md, content),
          json |-> fs_write_file(old.json, array_text(rs))]

SummaryContents == {"# Benchmark Results", "# Benchmark Results\n| hashing-1kb |", ""}
SummaryRecords ==
    {with_timestamp("hashing-1kb", IoMetrics, DateTime(1, 0)),
     with_timestamp("hashing-1kb", IoMetrics, DateTime(2, 0)),
     with_timestamp("enc/1kb", IoMetrics, DateTime(2, 0))}
SummaryResults ==
    {<<>>} \cup {<<r>> : r \in SummaryRecords}
           \cup {<<r, q>> : r \in SummaryRecords, q \in SummaryRecords}
SummarySteps == {"none", "ensure_directories", "write_md", "write_json"}

WriteSummary ==
    /\ \E rs \in SummaryResults, content \in SummaryContents, failing \in SummarySteps :
        /\ summary' = write_summary(summary, rs, content, failing)
        /\ ioRet' = [op |-> "write_summary",
                     tag |-> IF failing = "none" THEN "Ok" ELSE "Err",
                     val |-> IF failing = "none" THEN "summary.md" ELSE failing,
                     results |-> rs, content |-> content, before |-> summary]
    /\ UNCHANGED <<files, written, damaged, shown>>
    /\ UNCHANGED <<orchVars, statVars, jsonVars, infraVars>>

NextSummary == WriteSummary

SpecSummary == InitIO /\ [][NextSummary]_vars

(***************************************************************************)
(* io.rs: write_results, the writes of a slice of records one by one.      *)
(***************************************************************************)
\* what a write_result that returns Err may leave of its file: nothing
\* changed (ensure_directories, to_json or the create failed), or the file
\* created and cut short (the write failed after the create)
FailedWrites == {"untouched", "truncated"}

failed_write(dir, r, left) ==
    IF left = "untouched" THEN dir ELSE fs_write(dir, file_name(r), {})

\* results.iter().map(|r| self.write_result(r)).collect(): the records are
\* written in order and the first Err ends the iteration; `failAt` is the
\* position of the write that fails (0: none does)
RECURSIVE write_results(_, _, _, _, _)
write_results(dir, rs, i, failAt, left) ==
    IF i > Len(rs) THEN [dir |-> dir, out |-> Ok([k \in 1..Len(rs) |-> file_name(rs[k])])]
    ELSE IF i = failAt THEN [dir |-> failed_write(dir, rs[i], left), out |-> Err("io")]
    ELSE write_results(write_result(dir, rs[i]), rs, i + 1, failAt, left)

\* the slices of up to n records
RECURSIVE Slices(_)
Slices(n) ==
    IF n = 0 THEN {<<>>}
    ELSE Slices(n - 1) \cup {Append(rs, r) : rs \in Slices(n - 1), r \in IoRecords}

\* a raw directory that is empty or holds one record of an earlier run
InitBatchWrite ==
    /\ OrchIdle /\ StatIdle /\ JsonIdle /\ InfraIdle
    /\ \E earlier \in Slices(1) :
         /\ files = write_results(EmptyDir, earlier, 1, 0, "untouched").dir
         /\ written = earlier
    /\ summary = NoSummary
    /\ damaged = 0
    /\ ioRet = None
    /\ shown = None

WriteResults ==
    /\ ioRet = None
    /\ \E rs \in Slices(MaxWrites - Len(written)) :
         \E failAt \in 0..Len(rs), left \in FailedWrites :
            LET call == write_results(files, rs, 1, failAt, left)
            IN  /\ rs # <<>>
                /\ files' = call.dir
                /\ written' = written \o (IF failAt = 0 THEN rs
                                           ELSE SubSeq(rs, 1, failAt - 1))
                /\ ioRet' = [op |-> "write_results", tag |-> call.out.tag,
                             val |-> call.out.val, results |-> rs,
                             failAt |-> failAt, before |-> files]
    /\ shown' = None
    /\ UNCHANGED <<summary, damaged>>
    /\ UNCHANGED <<orchVars, statVars, jsonVars, infraVars>>

NextBatchWrite == WriteResults

SpecBatchWrite == InitBatchWrite /\ [][NextBatchWrite]_vars

(***************************************************************************)
(* infra.rs: the calls on one InfraAdapter shared by the threads.  Each    *)
(* action is one step of a call between two accesses of shared state; the  *)
(* first step of a call is taken together with the call itself.            *)
(***************************************************************************)
MaxCalls == 3       \* adapter calls per adapter, over all threads

\* configurations handed to InfraAdapter::new
InfraConfigs ==
    { InfraConfig_default,
      [InfraConfig_default EXCEPT !.enable_caching = FALSE, !.enable_rate_limiting = FALSE],
      [InfraConfig_default EXCEPT !.enabled = FALSE] }

InitInfra ==
    /\ OrchIdle /\ StatIdle /\ IoIdle /\ JsonIdle
    /\ \E config \in InfraConfigs : InfraAdapter_new(config)
    /\ backoff = None

OthersUnchanged == UNCHANGED <<orchVars, statVars, ioVars, jsonVars, backoff>>

CanCall(t) == thr[t].pc \in {"idle", "done"} /\ ncalls < MaxCalls

Begin(op, kind, at) ==
    [op |-> op, pc |-> at, kind |-> kind, stamp |-> ncalls + 1,
     ret |-> None, snap |-> None]
Return(th, value) == [th EXCEPT !.pc = "done", !.ret = Some(value)]

\* the enable flag that guards the refresh of a policy, lines 410, 427, 442
RefreshEnabled(kind) ==
    IF kind = "retry" THEN cfg.enable_retry
    ELSE IF kind = "rate_limit" THEN cfg.enable_rate_limiting
    ELSE cfg.enable_caching

\* mutant of update_capabilities: every capability is reported available
update_capabilities_AllAvailable(config) ==
    [config_available |-> TRUE, logging_available |-> TRUE,
     tracing_available |-> TRUE, caching_available |-> TRUE,
     retry_available |-> TRUE, rate_limiting_available |-> TRUE]

\* update_capabilities, lines 466-474
update_capabilities(config) ==
    [config_available |-> config.enable_config,
     logging_available |-> config.enable_logging,
     tracing_available |-> config.enable_tracing,
     caching_available |-> config.enable_caching,
     retry_available |-> config.enable_retry,
     rate_limiting_available |-> config.enable_rate_limiting]

\* mutant of already_initialized: the flag is not consulted
already_initialized_Ignored == FALSE

\* initialize, line 516: *self.initialized.read()
already_initialized == initialized

\* mutant of read_admitted: a reader does not wait for the writer
read_admitted_Unlocked(kind) == TRUE

\* RwLock::read: admitted while no thread holds the write lock
read_admitted(kind) == wlock[kind] = 0

\* RwLock::write: admitted while no thread holds the lock (a reader holds
\* it within its own step only)
write_admitted(kind) == wlock[kind] = 0

\* mutant of health_verdict: the initialized flag is not consulted
health_verdict_IgnoresFlag ==
    IF ~cfg.enabled THEN "Adapter is disabled" ELSE "healthy"

\* health_check, lines 488-494
health_verdict ==
    IF ~cfg.enabled THEN "Adapter is disabled"
    ELSE IF ~initialized THEN "Adapter not initialized"
    ELSE "healthy"

\* where a call goes on after the refresh of one policy: refresh_all (and
\* initialize through it) takes retry, rate limit, cache in this order
AfterRefresh(th) ==
    IF th.op = "refresh" THEN Return(th, Ok("refreshed"))
    ELSE IF th.kind = "retry" THEN [th EXCEPT !.pc = "refresh", !.kind = "rate_limit"]
    ELSE IF th.kind = "rate_limit" THEN [th EXCEPT !.pc = "refresh", !.kind = "cache"]
    ELSE IF th.op = "initialize" THEN [th EXCEPT !.pc = "set_initialized"]
    ELSE Return(th, Ok("refreshed"))

\* initialize, lines 515-519
Initialize(t) ==
    /\ CanCall(t)
    /\ ncalls' = ncalls + 1
    /\ thr' = [thr EXCEPT ![t] =
                IF already_initialized
                THEN Return(Begin("initialize", "none", "done"), Ok("already initialized"))
                ELSE Begin("initialize", "none", "update_capabilities")]
    /\ UNCHANGED <<cfg, policy, wlock, caps, initialized>>
    /\ OthersUnchanged

\* initialize, line 532
InitUpdateCapabilities(t) ==
    /\ thr[t].pc = "update_capabilities"
    /\ caps' = update_capabilities(cfg)
    /\ thr' = [thr EXCEPT ![t].pc = "refresh", ![t].kind = "retry"]
    /\ UNCHANGED <<cfg, policy, wlock, initialized, ncalls>>
    /\ OthersUnchanged

\* initialize, lines 537-540
InitSetInitialized(t) ==
    /\ thr[t].pc = "set_initialized"
    /\ initialized' = TRUE
    /\ thr' = [thr EXCEPT ![t] = Return(thr[t], Ok("initialized"))]
    /\ UNCHANGED <<cfg, policy, wlock, caps, ncalls>>
    /\ OthersUnchanged

\* refresh_retry_policy, refresh_rate_limit_policy, refresh_cache_policy
RefreshPolicy(t) ==
    /\ CanCall(t)
    /\ ncalls' = ncalls + 1
    /\ \E kind \in Kinds : thr' = [thr EXCEPT ![t] = Begin("refresh", kind, "refresh")]
    /\ UNCHANGED <<cfg, policy, wlock, caps, initialized>>
    /\ OthersUnchanged

\* refresh_all, lines 455-463
RefreshAll(t) ==
    /\ CanCall(t)
    /\ ncalls' = ncalls + 1
    /\ thr' = [thr EXCEPT ![t] = Begin("refresh_all", "retry", "refresh")]
    /\ UNCHANGED <<cfg, policy, wlock, caps, initialized>>
    /\ OthersUnchanged

\* lines 410-412: the policy is not enabled, nothing is written
RefreshSkip(t) ==
    /\ thr[t].pc = "refresh"
    /\ ~RefreshEnabled(thr[t].kind)
    /\ thr' = [thr EXCEPT ![t] = AfterRefresh(thr[t])]
    /\ UNCHANGED <<cfg, policy, wlock, caps, initialized, ncalls>>
    /\ OthersUnchanged

\* line 419: the write lock is taken and the store of the new value begins
RefreshLock(t) ==
    /\ thr[t].pc = "refresh"
    /\ RefreshEnabled(thr[t].kind)
    /\ write_admitted(thr[t].kind)
    /\ wlock' = [wlock EXCEPT ![thr[t].kind] = t]
    /\ policy' = [policy EXCEPT ![thr[t].kind].val = PolicyDefault(thr[t].kind),
                                ![thr[t].kind].lo = thr[t].stamp]
    /\ thr' = [thr EXCEPT ![t].pc = "store"]
    /\ UNCHANGED <<cfg, caps, initialized, ncalls>>
    /\ OthersUnchanged

\* line 419: the store ends and the guard is dropped
RefreshStore(t) ==
    /\ thr[t].pc = "store"
    /\ wlock' = [wlock EXCEPT ![thr[t].kind] = 0]
    /\ policy' = [policy EXCEPT ![thr[t].kind].hi = thr[t].stamp]
    /\ thr' = [thr EXCEPT ![t] = AfterRefresh(thr[t])]
    /\ UNCHANGED <<cfg, caps, initialized, ncalls>>
    /\ OthersUnchanged

\* retry_policy, rate_limit_policy, cache_policy, lines 372-385
GetPolicy(t) ==
    /\ CanCall(t)
    /\ ncalls' = ncalls + 1
    /\ \E kind \in Kinds :
        /\ read_admitted(kind)
        /\ thr' = [thr EXCEPT ![t] =
                    [Return(Begin("get", kind, "done"), Ok("policy"))
                        EXCEPT !.snap = Some(policy[kind])]]
    /\ UNCHANGED <<cfg, policy, wlock, caps, initialized>>
    /\ OthersUnchanged

\* health_check, lines 487-494
HealthCheck(t) ==
    /\ CanCall(t)
    /\ ncalls' = ncalls + 1
    /\ thr' = [thr EXCEPT ![t] =
                IF health_verdict = "healthy"
                THEN Begin("health_check", "none", "health_capabilities")
                ELSE Return(Begin("health_check", "none", "done"),
                            [healthy |-> FALSE, message |-> health_verdict])]
    /\ UNCHANGED <<cfg, policy, wlock, caps, initialized>>
    /\ OthersUnchanged

\* health_check, lines 496-512
HealthCapabilities(t) ==
    /\ thr[t].pc = "health_capabilities"
    /\ thr' = [thr EXCEPT ![t] =
                Return(thr[t], [healthy |-> TRUE,
                                message |-> Cardinality({c \in DOMAIN caps : caps[c]})])]
    /\ UNCHANGED <<cfg, policy, wlock, caps, initialized, ncalls>>
    /\ OthersUnchanged

\* as Shutdown, but the initialized flag is left as it is
Shutdown_KeepsFlag(t) ==
    /\ CanCall(t)
    /\ ncalls' = ncalls + 1
    /\ thr' = [thr EXCEPT ![t] = Return(Begin("shutdown", "none", "done"), Ok("shut down"))]
    /\ UNCHANGED <<cfg, policy, wlock, caps, initialized>>
    /\ OthersUnchanged

\* shutdown, lines 543-547
Shutdown(t) ==
    /\ CanCall(t)
    /\ ncalls' = ncalls + 1
    /\ initialized' = FALSE
    /\ thr' = [thr EXCEPT ![t] = Return(Begin("shutdown", "none", "done"), Ok("shut down"))]
    /\ UNCHANGED <<cfg, policy, wlock, caps>>
    /\ OthersUnchanged

NextInfra ==
    \E t \in Threads :
        \/ Initialize(t) \/ InitUpdateCapabilities(t) \/ InitSetInitialized(t)
        \/ RefreshPolicy(t) \/ RefreshAll(t)
        \/ RefreshSkip(t) \/ RefreshLock(t) \/ RefreshStore(t)
        \/ GetPolicy(t) \/ HealthCheck(t) \/ HealthCapabilities(t) \/ Shutdown(t)

SpecInfra == InitInfra /\ [][NextInfra]_vars

(***************************************************************************)
(* infra.rs: RetryPolicy::backoff_for_attempt on its own.                  *)
(***************************************************************************)
MaxAttempt == 12    \* attempts 1..MaxAttempt
JitterSteps == 4    \* rand::random::<f64>() is one of 0, 1/4, 2/4, 3/4

RetryPolicies ==
    { RetryPolicy_default,
      [RetryPolicy_default EXCEPT !.jitter = FALSE],
      [RetryPolicy_default EXCEPT !.initial_backoff_ms = 250, !.max_backoff_ms = 1000,
                                  !.multiplier = 3],
      [RetryPolicy_default EXCEPT !.initial_backoff_ms = 500, !.max_backoff_ms = 200,
                                  !.jitter = FALSE] }

\* (initial_backoff_ms * multiplier.powi(k)).min(max_backoff_ms); the
\* product is cut at the maximum factor by factor, which is the same
\* minimum for a multiplier >= 1 and keeps the numbers in range
RECURSIVE capped_backoff(_, _)
capped_backoff(p, k) ==
    IF k = 0 THEN Min(p.initial_backoff_ms, p.max_backoff_ms)
    ELSE Min(capped_backoff(p, k - 1) * p.multiplier, p.max_backoff_ms)

\* backoff_ms + rand * 0.3 * backoff_ms, as u64 (truncated), rand = draw / JitterSteps
with_jitter(backoff_ms, draw) ==
    (backoff_ms * 10 * JitterSteps + draw * 3 * backoff_ms) \div (10 * JitterSteps)

\* backoff_for_attempt, lines 125-138; the Duration in milliseconds
backoff_for_attempt(p, attempt, draw) ==
    LET backoff_ms == capped_backoff(p, attempt - 1)
    IN  IF p.jitter THEN with_jitter(backoff_ms, draw) ELSE backoff_ms

InitBackoff == OrchIdle /\ StatIdle /\ IoIdle /\ JsonIdle /\ InfraIdle

BackoffForAttempt ==
    /\ \E p \in RetryPolicies, attempt \in 1..MaxAttempt, draw \in 0..(JitterSteps - 1) :
         backoff' = Some([policy |-> p, attempt |-> attempt,
                          draw |-> IF p.jitter THEN Some(draw) ELSE None,
                          duration |-> backoff_for_attempt(p, attempt, draw)])
    /\ UNCHANGED <<cfg, policy, wlock, caps, initialized, thr, ncalls>>
    /\ UNCHANGED <<orchVars, statVars, ioVars, jsonVars>>

NextBackoff == BackoffForAttempt

SpecBackoff == InitBackoff /\ [][NextBackoff]_vars

(***************************************************************************)
(* result.rs: a StandardMetrics value built call by call, then serialized. *)
(***************************************************************************)
\* the fields of the struct in declaration order, lines 82-110
WellKnown ==
    <<"duration_ms", "ops_per_second", "bytes_per_second", "latency_p50_ms",
      "latency_p95_ms", "latency_p99_ms", "memory_bytes", "iterations",
      "data_size_bytes", "success_rate">>

FieldOf(m, name) ==
    CASE name = "duration_ms" -> m.duration_ms
      [] name = "ops_per_second" -> m.ops_per_second
      [] name = "bytes_per_second" -> m.bytes_per_second
      [] name = "latency_p50_ms" -> m.latency_p50_ms
      [] name = "latency_p95_ms" -> m.latency_p95_ms
      [] name = "latency_p99_ms" -> m.latency_p99_ms
      [] name = "memory_bytes" -> m.memory_bytes
      [] name = "iterations" -> m.iterations
      [] name = "data_size_bytes" -> m.data_size_bytes
      [] name = "success_rate" -> m.success_rate

\* the derived Serialize: one serialize_entry per field that is Some, in
\* declaration order, then (#[serde(flatten)]) one per entry of `custom`
serialize_entries(m) ==
    LET fields == SelectSeq(WellKnown, LAMBDA name : FieldOf(m, name) # None)
        extension == CHOOSE order \in Perms(DOMAIN m.custom) : TRUE
    IN  [i \in 1..Len(fields) |-> <<fields[i], FieldOf(m, fields[i])[1]>>]
          \o [i \in 1..Len(extension) |-> <<extension[i], m.custom[extension[i]]>>]

\* serde_json::to_value collects the entries in a Map: the last entry
\* written for a key is the one the value holds
to_json_value(m) ==
    LET entries == serialize_entries(m)
        keys == {entries[i][1] : i \in DOMAIN entries}
        last(k) == CHOOSE i \in DOMAIN entries :
                     /\ entries[i][1] = k
                     /\ \A j \in DOMAIN entries : entries[j][1] = k => j <= i
    IN  [entries |-> entries, value |-> [k \in keys |-> entries[last(k)][2]]]

MetricValues == {1, 2}
CustomKeys == {"algorithm", "duration_ms", "iterations"}

\* every value one more builder call can make of m
BuilderCalls(m) ==
    {with_duration_ms(m, v) : v \in MetricValues}
      \cup {with_ops_per_second(m, v) : v \in MetricValues}
      \cup {with_bytes_per_second(m, v) : v \in MetricValues}
      \cup {with_latencies(m, v[1], v[2], v[3]) :
               v \in MetricValues \X MetricValues \X MetricValues}
      \cup {with_data_size(m, v) : v \in MetricValues}
      \cup {with_iterations(m, v) : v \in MetricValues}
      \cup {with_custom(m, k, v) : k \in CustomKeys, v \in MetricValues}

InitBuilder ==
    /\ OrchIdle /\ StatIdle /\ IoIdle /\ JsonIdle /\ InfraIdle

\* one of the `with_*` calls on the value built so far
BuilderCall ==
    /\ jvalue = None
    /\ builder' \in BuilderCalls(builder)
    /\ UNCHANGED <<jrec, jtext, jback, jvalue>>
    /\ UNCHANGED <<orchVars, statVars, ioVars, infraVars>>

\* StandardMetrics::to_json_value
ToJsonValue ==
    /\ jvalue = None
    /\ jvalue' = Some(to_json_value(builder))
    /\ UNCHANGED <<jrec, jtext, jback, builder>>
    /\ UNCHANGED <<orchVars, statVars, ioVars, infraVars>>

NextBuilder == BuilderCall \/ ToJsonValue

SpecBuilder == InitBuilder /\ [][NextBuilder]_vars

(***************************************************************************)
(* Properties.                                                             *)
(***************************************************************************)
RecordIds(rs) == [i \in 1..Len(rs) |-> rs[i].target_id]
CallsOf(op, ok) == SelectSeq(calls, LAMBDA c : c.op = op /\ c.ok = ok)
CalledIds(op, ok) == {c.id : c \in {calls[k] : k \in 1..Len(calls)} \cap
                                   {x \in {calls[k] : k \in 1..Len(calls)} :
                                      x.op = op /\ x.ok = ok}}
Logged(kind) ==
    LET ls == SelectSeq(stderr, LAMBDA l : l[1] = kind)
    IN  [i \in 1..Len(ls) |-> ls[i][2]]
PosOf(id) == CHOOSE i \in 1..Len(targets) : targets[i].id = id
BatchReturned == fn \in {"all", "prefix"} /\ pc = "returned"

\* C1: a batch that returns holds exactly one record for each target whose
\* setup did not fail and none for the others, in the order of the (filtered)
\* catalog, and stderr has exactly one "Setup failed" line per failed target.
C1_FailureIsolation ==
    BatchReturned =>
        LET F == CalledIds("setup", FALSE)
        IN  /\ RecordIds(ret.val) = SelectSeq(Ids(targets), LAMBDA id : id \notin F)
            /\ Logged("Setup failed") = SelectSeq(Ids(targets), LAMBDA id : id \in F)

\* three targets, the setup of the middle one failed
C1_Witness ==
    /\ BatchReturned
    /\ Ids(targets) = <<"encryption-1kb", "encryption-1mb", "encryption-10mb">>
    /\ CalledIds("setup", FALSE) = {"encryption-1mb"}
    /\ RecordIds(ret.val) = <<"encryption-1kb", "encryption-10mb">>
    /\ Logged("Setup failed") = <<"encryption-1mb">>

\* C2: after the run of a target failed, the orchestrator is at the next
\* target of the batch (or has returned the records collected so far): the
\* failure does not abort the batch.
C2_RunFailureProceeds ==
    (fn \in {"all", "prefix"} /\ Len(calls) > 0
       /\ calls[Len(calls)].op = "run" /\ ~calls[Len(calls)].ok)
    => /\ pc \in {"setup", "returned"}
       /\ idx = PosOf(calls[Len(calls)].id) + 1

\* C3: a failed teardown is only logged.  The record of its target is kept
\* (and is in the returned list), the orchestrator goes on with the next
\* target, which is set up and, its setup succeeding, run, and the value
\* returned is a list (batch) or Some(record) (run-by-id), never an error.
C3_TeardownFailureOnlyLogged ==
    \A k \in 1..Len(calls) :
        (calls[k].op = "teardown" /\ ~calls[k].ok) =>
            LET id == calls[k].id
            IN  /\ id \in {results[i].target_id : i \in 1..Len(results)}
                /\ <<"Teardown failed", id>> \in {stderr[i] : i \in 1..Len(stderr)}
                /\ pc # "idle"
                /\ fn \in {"all", "prefix"} =>
                     /\ k < Len(calls) =>
                          /\ PosOf(id) < Len(targets)
                          /\ calls[k + 1].op = "setup"
                          /\ calls[k + 1].id = targets[PosOf(id) + 1].id
                     /\ k = Len(calls) =>
                          pc \in {"setup", "returned"} /\ idx = PosOf(id) + 1
                     /\ pc = "returned" =>
                          /\ ret.tag = "Vec"
                          /\ id \in {ret.val[i].target_id : i \in 1..Len(ret.val)}
                          /\ \A j \in (PosOf(id) + 1)..Len(targets) :
                               /\ targets[j].id \in
                                    CalledIds("setup", TRUE) \cup CalledIds("setup", FALSE)
                               /\ targets[j].id \in CalledIds("setup", TRUE) =>
                                    targets[j].id \in CalledIds("run", TRUE)
                /\ fn = "id" =>
                     /\ pc = "returned"
                     /\ ret.tag = "Some"
                     /\ RecordIds(ret.val) = <<id>>

\* a batch returned although the teardown of one of its first targets failed
C3_Witness ==
    /\ BatchReturned
    /\ Len(targets) >= 3
    /\ CalledIds("teardown", FALSE) = {targets[1].id}
    /\ RecordIds(ret.val) = Ids(targets)

\* C7: the lifecycle calls of a batch are sequential and ordered: a run
\* directly follows the successful setup of the same target, a teardown
\* directly follows the run of the same target, the first call is the setup
\* of the first target, every later setup directly follows the teardown (or
\* the failed setup) of the target before it, and a target whose setup
\* failed has neither run nor teardown.
C7_LifecycleOrder ==
    fn \in {"all", "prefix"} =>
        /\ \A k \in 1..Len(calls) :
            LET c == calls[k]
            IN  /\ c.op = "run" =>
                     k > 1 /\ calls[k - 1] = Call("setup", c.id, TRUE)
                /\ c.op = "teardown" =>
                     k > 1 /\ calls[k - 1] = Call("run", c.id, TRUE)
                /\ c.op = "setup" =>
                     IF k = 1 THEN c.id = targets[1].id
                     ELSE /\ \/ calls[k - 1].op = "teardown"
                             \/ calls[k - 1] = Call("setup", calls[k - 1].id, FALSE)
                          /\ PosOf(calls[k - 1].id) < Len(targets)
                          /\ c.id = targets[PosOf(calls[k - 1].id) + 1].id
        /\ \A id \in CalledIds("setup", FALSE) :
             id \notin {calls[k].id : k \in {j \in 1..Len(calls) : calls[j].op # "setup"}}

\* a batch in which one setup failed and the next target ran to its teardown
C7_Witness ==
    /\ BatchReturned
    /\ Len(calls) >= 4
    /\ calls[1] = Call("setup", targets[1].id, FALSE)
    /\ calls[2] = Call("setup", targets[2].id, TRUE)
    /\ calls[3] = Call("run", targets[2].id, TRUE)
    /\ calls[4].op = "teardown" /\ calls[4].id = targets[2].id

CatalogIds == {all_targets[i].id : i \in 1..Len(all_targets)}
\* P is a prefix of id: id is P followed by the rest of id
HasPrefix(id, P) == Len(P) <= Len(id) /\ P \o SubSeq(id, Len(P) + 1, Len(id)) = id

\* C4: the run command with --prefix P ends with the "No benchmarks found
\* with prefix" validation error exactly when no catalog id starts with P.
C4_ValidationIffNoMatch ==
    (cli = "run" /\ fn = "prefix" /\ cliOutcome # "pending") =>
        (cliOutcome = "validation_prefix" <=>
            ~\E id \in CatalogIds : HasPrefix(id, arg[1]))

\* C5: when the run command ends with a validation error, no lifecycle call
\* has been made and nothing has been written to the output directory.
C5_ValidationBeforeExecution ==
    (cli = "run" /\ cliOutcome \in {"validation_target", "validation_prefix"}) =>
        calls = <<>> /\ outDir = EmptyOutDir

\* C6: run-by-id executes the lifecycle of the requested target only, each
\* call at most once; a record it returns carries the requested id, and it
\* returns one when the id is in the catalog and the setup succeeded; for
\* an id not in the catalog it returns None without calling any target.
C6_RunByIdResolvesOne ==
    fn = "id" =>
        LET id == arg[1]
        IN  /\ \A k \in 1..Len(calls) : calls[k].id = id
            /\ \A op \in {"setup", "run", "teardown"} :
                 Len(SelectSeq(calls, LAMBDA c : c.op = op)) <= 1
            /\ (pc = "returned" /\ ret.tag = "Some") => RecordIds(ret.val) = <<id>>
            /\ (pc = "returned" /\ id \in CatalogIds /\ CalledIds("setup", FALSE) = {})
                 => ret.tag = "Some"
            /\ id \notin CatalogIds =>
                 pc = "returned" /\ ret.tag = "None" /\ calls = <<>>

\* the test of lib.rs: run_benchmark_by_id("encryption-1kb") is Some
C6_Witness ==
    /\ fn = "id" /\ arg = Some("encryption-1kb")
    /\ pc = "returned" /\ ret.tag = "Some"
    /\ Len(calls) = 3

\* C8: the ids of a snapshot taken with all_targets() are pairwise distinct,
\* and the snapshot has the ids another call returns, in the same order.
FullSnapshot == fn = "all" \/ (cli = "list" /\ cliArgs.prefix = None)

C8_UniqueIds ==
    FullSnapshot =>
        /\ \A i, j \in 1..Len(targets) : i # j => targets[i].id # targets[j].id
        /\ Ids(targets) = Ids(all_targets)

\* the list command printed the whole catalog
C8_Witness ==
    /\ cli = "list" /\ cliArgs.prefix = None
    /\ Len(listed) = 12

\* C9: a snapshot filtered by prefix P holds exactly the catalog targets
\* whose id starts with P, in catalog order, and the list command prints
\* their ids and succeeds, also when there are none.
C9_PrefixFilterExact ==
    /\ fn = "prefix" =>
         /\ \A i \in 1..Len(targets) : HasPrefix(targets[i].id, arg[1])
         /\ Ids(targets) = SelectSeq(Ids(all_targets), LAMBDA id : HasPrefix(id, arg[1]))
    /\ (cli = "list" /\ cliArgs.prefix # None) =>
         /\ \A i \in 1..Len(listed) : HasPrefix(listed[i], cliArgs.prefix[1])
         /\ listed = SelectSeq(Ids(all_targets),
                               LAMBDA id : HasPrefix(id, cliArgs.prefix[1]))
         /\ cliOutcome = "ok"

\* the list command with a prefix that two targets have
C9_Witness ==
    /\ cli = "list" /\ cliArgs.prefix = Some("hashing")
    /\ listed = <<"hashing-blake3-1mb", "hashing-sha256-1mb">>

\* C10: with N >= 1 trials the statistics never index out of range: the
\* three indices lie in 0..N-1, the emitted latencies are ordered
\* p50 <= p95 <= p99, and for N = 1 all three are the single sample.
C10_PercentilesInRange ==
    /\ (runPc = "panicked" /\ Len(times.enc) = bench.iterations) => bench.iterations = 0
    /\ runPc = "done" =>
         LET n == bench.iterations
             m == emitted[1].metrics
         IN  /\ n >= 1
             /\ \A k \in 1..3 : emitted[1].idx[k] \in 0..(n - 1)
             /\ m.latency_p50_ms[1] <= m.latency_p95_ms[1]
             /\ m.latency_p95_ms[1] <= m.latency_p99_ms[1]
             /\ n = 1 => /\ m.latency_p50_ms = Some(times.enc[1])
                         /\ m.latency_p95_ms = Some(times.enc[1])
                         /\ m.latency_p99_ms = Some(times.enc[1])

\* a run whose trials were not all equally long, and whose p50 is below its p99
C10_Witness ==
    /\ runPc = "done"
    /\ bench.iterations >= 3
    /\ emitted[1].metrics.latency_p50_ms[1] < emitted[1].metrics.latency_p99_ms[1]

LastCall(op) == ioRet /= None /\ ioRet.op = op
SeqSet(rs) == {rs[i] : i \in 1..Len(rs)}
Ascending(rs) ==
    \A i \in 1..(Len(rs) - 1) : ~Before(rs[i + 1].timestamp, rs[i].timestamp)

\* C11: records with distinct timestamps written with write_result in any
\* order are read back by read_results as the one sequence ordered by
\* timestamp (here: the written records sorted, which depends on the set of
\* records only).
C11_ReadBackSorted ==
    ( /\ LastCall("read_results")
      /\ damaged = 0
      /\ \A i, j \in 1..Len(written) :
            i /= j => written[i].timestamp /= written[j].timestamp )
        => /\ ioRet.tag = "Ok"
           /\ ioRet.val = sort_by_timestamp(written)

\* C12: after write_result calls on records that pairwise differ in target id
\* or in timestamp, every record has its own file and read_results returns as
\* many records as were written.
C12_OneFilePerRecord ==
    ( /\ LastCall("read_results")
      /\ damaged = 0
      /\ \A i, j \in 1..Len(written) :
            i /= j => \/ written[i].target_id /= written[j].target_id
                      \/ written[i].timestamp /= written[j].timestamp )
        => /\ Cardinality(DOMAIN files) = Len(written)
           /\ ioRet.tag = "Ok"
           /\ Len(ioRet.val) = Len(written)

\* C13: with one file of the raw directory corrupt (its text does not parse)
\* or unreadable, read_results succeeds and returns every parseable record of
\* the directory.
C13_DamagedFileSkipped ==
    (LastCall("read_results") /\ damaged = 1)
        => /\ ioRet.tag = "Ok"
           /\ SeqSet(ioRet.val) =
                {e.parsed.val : e \in {d \in read_dir(files) :
                    extension_is_json(d.name) /\ d.readable /\ d.parsed.tag = "Ok"}}

\* C18: the records printed by the results command are in ascending order of
\* timestamp, without and with --latest.
C18_ShownInTimestampOrder ==
    shown /= None => Ascending(shown[1])

\* C19: the --latest view holds exactly one record for each target id of the
\* stored records, and that record has the greatest timestamp among the
\* stored records of its id.
C19_LatestPerTarget ==
    (LastCall("results --latest") /\ shown /= None) =>
        LET stored == SeqSet(ioRet.val)
            view == shown[1]
        IN  /\ \A r \in stored :
                  Cardinality({i \in 1..Len(view) : view[i].target_id = r.target_id}) = 1
            /\ \A i \in 1..Len(view) :
                  /\ view[i] \in stored
                  /\ \A r \in stored :
                        r.target_id = view[i].target_id
                            => ~Before(view[i].timestamp, r.timestamp)

C19_Witness ==
    /\ LastCall("results --latest")
    /\ shown /= None
    /\ Len(ioRet.val) = 3
    /\ Len(shown[1]) = 2

\* C20: after a write_summary(results, content) that succeeds, summary.md is
\* content and summary.json is the array of the given results in the given
\* order, whatever the two files held before.
C20_SummaryRegenerated ==
    (LastCall("write_summary") /\ ioRet.tag = "Ok") =>
        /\ summary.md = Some(ioRet.content)
        /\ summary.json /= None
        /\ Len(summary.json[1]) = Len(ioRet.results)
        /\ \A i \in 1..Len(ioRet.results) :
              from_json(summary.json[1][i]) = Ok(ioRet.results[i])

C20_Witness ==
    /\ LastCall("write_summary")
    /\ ioRet.tag = "Ok"
    /\ ioRet.before.md /= None
    /\ ioRet.before.json /= None
    /\ Len(ioRet.before.json[1]) = 2
    /\ Len(ioRet.results) = 1
    /\ ioRet.before.md /= Some(ioRet.content)

\* thread t begins the call `op` in this step
Calls(t, op) ==
    /\ thr[t].pc \in {"idle", "done"}
    /\ thr'[t] /= thr[t]
    /\ thr'[t].op = op

\* C15: an initialize called on an adapter whose first initialize has set
\* the flag returns Ok and leaves the capability flags, the policies and the
\* initialized flag as the first call left them.
C15_SecondInitializeNoOp ==
    [][\A t \in Threads :
          (initialized /\ Calls(t, "initialize"))
              => /\ thr'[t].pc = "done"
                 /\ thr'[t].ret = Some(Ok("already initialized"))
                 /\ UNCHANGED <<caps, policy, wlock, initialized>>]_vars

C15_Witness ==
    \E t \in Threads :
        /\ thr[t].op = "initialize"
        /\ thr[t].ret = Some(Ok("already initialized"))
        /\ initialized
        /\ ~cfg.enable_caching
        /\ caps = update_capabilities(cfg)
        /\ \A k \in Kinds : policy[k].lo = policy[k].hi

\* C16: health_check on an adapter that is not initialized reports unhealthy;
\* it reports healthy only if the adapter is enabled and the flag is set
\* when it is consulted; no step of health_check changes a policy, a
\* capability or the flag.
C16_HealthCheckGuarded ==
    [][\A t \in Threads :
          /\ Calls(t, "health_check") =>
                /\ ~initialized =>
                      /\ thr'[t].pc = "done"
                      /\ thr'[t].ret[1].healthy = FALSE
                /\ thr'[t].pc = "health_capabilities" => cfg.enabled /\ initialized
                /\ UNCHANGED <<caps, policy, wlock, initialized>>
          /\ (thr[t].pc = "health_capabilities" /\ thr'[t] /= thr[t]) =>
                /\ thr'[t].ret[1].healthy = TRUE
                /\ UNCHANGED <<caps, policy, wlock, initialized>>]_vars

C16_Witness ==
    /\ thr[1].op = "health_check"
    /\ thr[1].ret = Some([healthy |-> FALSE, message |-> "Adapter not initialized"])
    /\ thr[2].op = "health_check"
    /\ thr[2].pc = "done"
    /\ thr[2].ret[1].healthy = TRUE
    /\ cfg.enabled /\ initialized

\* C17: a policy value obtained by a getter is a whole value, both halves
\* stored by one install (or by the constructor), and a snapshot a thread
\* holds does not change while other threads write.
C17_SnapshotsWhole ==
    /\ [](\A t \in Threads :
            thr[t].snap /= None =>
                /\ thr[t].snap[1].lo = thr[t].snap[1].hi
                /\ thr[t].snap[1].lo \in 0..ncalls
                /\ thr[t].snap[1].val = PolicyDefault(thr[t].kind))
    /\ [][\A t \in Threads :
            (thr[t].snap /= None /\ thr'[t].stamp = thr[t].stamp)
                => thr'[t].snap = thr[t].snap]_vars

C17_Witness ==
    \E t \in Threads :
        /\ thr[t].snap /= None
        /\ thr[t].snap[1].lo >= 1
        /\ policy[thr[t].kind].lo > thr[t].snap[1].lo
        /\ wlock[thr[t].kind] /= 0

(***************************************************************************)
(* C21: when the run command is given --iterations N, every record it      *)
(* obtained from the orchestrator carries the iteration count N.           *)
(***************************************************************************)
C21_IterationsHonoured ==
    (cli = "run" /\ pc = "returned" /\ cliArgs.iterations # None) =>
        \A i \in 1..Len(ret.val) :
            ret.val[i].metrics.iterations = cliArgs.iterations[1]

\* C22: the metrics record a catalog target emits holds the average
\* duration, the operations per second, the bytes per second and the three
\* percentile latencies.
C22_AllFieldsEmitted ==
    (runPc = "done" /\ \E i \in 1..Len(all_targets) : bench = all_targets[i]) =>
        LET m == emitted[1].metrics
        IN  /\ m.duration_ms # None
            /\ m.ops_per_second # None
            /\ m.bytes_per_second # None
            /\ m.latency_p50_ms # None
            /\ m.latency_p95_ms # None
            /\ m.latency_p99_ms # None

\* C23: whatever builder calls made a metrics value, its extension map holds
\* no key that is a well-known field name, and the serializer writes no key
\* twice.
C23_NoKeyCollision ==
    /\ \A i \in DOMAIN WellKnown : WellKnown[i] \notin DOMAIN builder.custom
    /\ jvalue # None =>
         \A i, j \in DOMAIN jvalue[1].entries :
            i # j => jvalue[1].entries[i][1] # jvalue[1].entries[j][1]

\* C24: with N >= 1 trials every adapter takes its latencies at the indices
\* N div 2, min(N-1, floor(N*95/100)) and min(N-1, floor(N*99/100)) of the
\* sorted trial times; for N = 10 these are 5, 9, 9 and for N = 2 the last
\* two are 1.
NearestRank(n) ==
    <<n \div 2, Min(n - 1, (n * 95) \div 100), Min(n - 1, (n * 99) \div 100)>>

C24_NearestRankIndices ==
    runPc = "done" =>
        LET n == bench.iterations
            m == emitted[1].metrics
            sorted == emitted[1].sorted
        IN  /\ emitted[1].idx = NearestRank(n)
            /\ m.latency_p50_ms = Some(At(sorted, NearestRank(n)[1]))
            /\ m.latency_p95_ms = Some(At(sorted, NearestRank(n)[2]))
            /\ m.latency_p99_ms = Some(At(sorted, NearestRank(n)[3]))
            /\ n = 10 => emitted[1].idx = <<5, 9, 9>>
            /\ n = 2 => emitted[1].idx[2] = 1 /\ emitted[1].idx[3] = 1

\* a run of ten trials took its latencies at 5, 9 and 9
C24_Witness ==
    /\ runPc = "done"
    /\ bench.iterations = 10
    /\ emitted[1].idx = <<5, 9, 9>>

\* C25: in the record of every target the emitted duration is the average
\* of the trial sequence the percentiles are taken from, and the emitted
\* bytes per second is the emitted data size over the emitted duration,
\* times 1000.
C25_FieldsConsistent ==
    runPc = "done" =>
        LET m == emitted[1].metrics
        IN  /\ emitted[1].sorted = sort_by(times.enc)
            /\ m.duration_ms = Some(Average(times.enc, bench.iterations))
            /\ m.bytes_per_second
                  = Some(PerSecond(m.data_size_bytes[1], m.duration_ms[1]))

\* thread t is inside the initialization body: past the check of the flag,
\* before its return
InBody(t) == thr[t].op = "initialize" /\ thr[t].pc \notin {"idle", "done"}

\* C26: of two initialize calls that run concurrently at most one executes
\* the initialization body; the other returns Ok without doing anything.
C26_AtMostOneInitializes ==
    \A t, u \in Threads : (InBody(t) /\ InBody(u)) => t = u

\* C27: backoff_for_attempt never returns more than the policy's
\* max_backoff_ms, whatever the attempt and the jitter draw.
C27_BackoffWithinMaximum ==
    backoff # None => backoff[1].duration <= backoff[1].policy.max_backoff_ms

\* the capability flags are the enable flags of the configuration
CapabilitiesMatchConfig ==
    /\ caps.config_available = cfg.enable_config
    /\ caps.logging_available = cfg.enable_logging
    /\ caps.tracing_available = cfg.enable_tracing
    /\ caps.caching_available = cfg.enable_caching
    /\ caps.retry_available = cfg.enable_retry
    /\ caps.rate_limiting_available = cfg.enable_rate_limiting

\* C28: while the initialized flag is set, every capability flag equals
\* the enable flag of the configuration, in every interleaving of the
\* adapter's calls; no step of shutdown or of a refresh changes the
\* capability flags.
C28_CapabilitiesFollowConfig ==
    /\ [](initialized => CapabilitiesMatchConfig)
    /\ [][\A t \in Threads :
            (thr'[t] /= thr[t] /\ thr'[t].op \in {"shutdown", "refresh", "refresh_all"})
                => caps' = caps]_vars

\* an adapter with caching disabled, initialized again after a shutdown
C28_Witness ==
    /\ initialized
    /\ ~cfg.enable_caching /\ ~caps.caching_available /\ caps.config_available
    /\ \E t \in Threads : thr[t].op = "shutdown"

\* thread t is the only thread that has called the adapter, and its last
\* call has returned: the calls so far were made one after the other
Sequential(t) ==
    /\ thr[t].pc = "done"
    /\ \A u \in Threads \ {t} : thr[u] = IdleThread

\* C29: in a series of calls made one after the other on an enabled
\* adapter, a health_check that follows an initialize reports healthy and
\* one that follows a shutdown reports unhealthy; shutdown clears the
\* initialized flag, and an initialize that follows a shutdown executes the
\* initialization body again.
C29_HealthyIffLastInitialize ==
    [][\A t \in Threads :
          /\ (Sequential(t) /\ cfg.enabled /\ Calls(t, "health_check")
                 /\ thr[t].op \in {"initialize", "shutdown"})
                => (thr'[t].pc = "health_capabilities" <=> thr[t].op = "initialize")
          /\ (thr[t].pc = "health_capabilities" /\ thr'[t] /= thr[t])
                => thr'[t].ret[1].healthy
          /\ Calls(t, "shutdown") => ~initialized'
          /\ (Sequential(t) /\ thr[t].op = "shutdown" /\ Calls(t, "initialize"))
                => thr'[t].pc = "update_capabilities"]_vars

\* initialize, shutdown, health_check one after the other: unhealthy
C29_Witness ==
    /\ thr[1].op = "health_check" /\ thr[1].stamp = 3
    /\ thr[1].ret = Some([healthy |-> FALSE, message |-> "Adapter not initialized"])
    /\ thr[2] = IdleThread
    /\ cfg.enabled /\ caps.config_available /\ ~initialized

\* C30: a write_results call that fails at a record returns the error of
\* that write; every record before it in the slice is in the raw directory
\* as it was written, and nothing was written for the records after it
\* (apart from the files of the records up to the failing one, the
\* directory is as it was before the call).
C30_StopsAtFirstFailure ==
    (LastCall("write_results") /\ ioRet.failAt > 0) =>
        LET rs == ioRet.results
            k == ioRet.failAt
            attempted == {file_name(rs[i]) : i \in 1..k}
        IN  /\ ioRet.tag = "Err"
            /\ \A i \in 1..(k - 1) :
                  /\ file_name(rs[i]) \in DOMAIN files
                  /\ files[file_name(rs[i])] = File(to_json(rs[i]))
            /\ \A n \in (DOMAIN files \cup DOMAIN ioRet.before) \ attempted :
                  /\ n \in DOMAIN files /\ n \in DOMAIN ioRet.before
                  /\ files[n] = ioRet.before[n]

====
